---- MODULE Spec2Model ----
(***************************************************************************)
(* Job orchestration core of quant_research_system:                        *)
(*   - DAGExecutor (backend/data_manager/dag_executor.py): build_dag,      *)
(*     Kahn cycle check, layered topological sort, layered concurrent      *)
(*     execution through a worker pool, audit logs;                        *)
(*   - run_dag (backend/app/api/v1/production.py): single-day and          *)
(*     date-range backfill requests;                                       *)
(*   - SyncTaskExecutor / SyncLogManager                                   *)
(*     (backend/data_manager/sync_components.py): full and incremental     *)
(*     sync with the sync_log watermark.                                   *)
(***************************************************************************)
EXTENDS Naturals, Integers, Sequences, FiniteSets, Bags, TLC

\* ------------------------------------------------------------------------
\* Bounds of the model
\* ------------------------------------------------------------------------
\* total number of depends_on entries of one DAG config
MaxEdges == 2
\* first and last calendar day of the modelled horizon (day 0 is a Monday)
FirstDay == 3
MaxDay == 7
\* last second of the modelled wall clock
MaxClock == 1
\* number of run_dag requests served
MaxRequests == 2
\* number of execute_task calls made
MaxSyncCalls == 2
\* last tick of the modelled clock of the API client
MaxTime == 16
\* number of call_api calls made
MaxCallApi == 2

\* ------------------------------------------------------------------------
\* Values
\* ------------------------------------------------------------------------
\* Python's None (kept a record so that it compares with records)
None == [none |-> TRUE]

\* a Python str (kept a record so that it compares with None)
Str(text) == [str |-> text]

\* task ids that may occur in a DAG config; dict order of DAGRun.tasks
TaskOrder == <<"a", "b", "c">>
TaskIds == {TaskOrder[i] : i \in 1..Len(TaskOrder)}
\* the task ids of a DAG with one task more than the pool has workers
WideOrder == TaskOrder \o <<"d">>
WideIds == {WideOrder[i] : i \in 1..Len(WideOrder)}
AllTaskIds == TaskIds \cup WideIds
TaskTypes == {"sync", "production", "other"}
DagIds == {"d1", "d2"}

\* TaskStatus
PENDING == "pending"
WAITING == "waiting"
RUNNING == "running"
SUCCESS == "success"
FAILED == "failed"
SKIPPED == "skipped"

Range(s) == {s[i] : i \in 1..Len(s)}

\* number of positions of s holding a member of S
RECURSIVE CountIn(_, _)
CountIn(s, S) ==
    IF s = <<>> THEN 0
    ELSE (IF Head(s) \in S THEN 1 ELSE 0) + CountIn(Tail(s), S)

\* sequences over S of length at most n
RECURSIVE SeqsUpTo(_, _)
SeqsUpTo(S, n) ==
    IF n = 0 THEN {<<>>}
    ELSE LET prev == SeqsUpTo(S, n - 1)
         IN prev \cup {Append(s, x) : s \in {p \in prev : Len(p) = n - 1}, x \in S}

\* ------------------------------------------------------------------------
\* Dates.  A date string is [fmt, day]: fmt is the layout of the text
\* ("%Y%m%d", "%Y-%m-%d", or "other" for text neither layout parses) and
\* day the calendar day it denotes.
\* ------------------------------------------------------------------------
Days == FirstDay..MaxDay
Ymd(d) == [fmt |-> "%Y%m%d", day |-> d]
YmdDash(d) == [fmt |-> "%Y-%m-%d", day |-> d]
BadDate == [fmt |-> "other", day |-> 0]
DateStrings == {Ymd(d) : d \in Days} \cup {YmdDash(d) : d \in Days} \cup {BadDate}

\* DateUtils.normalize_date: None for None/empty, the %Y%m%d text of the day
\* for either recognised layout, ValueError otherwise
ValueError == [raised |-> "ValueError"]
normalize_date(date_str) ==
    IF date_str = None THEN None
    ELSE IF date_str.fmt = "%Y-%m-%d" THEN Ymd(date_str.day)
    ELSE IF date_str.fmt = "%Y%m%d" THEN Ymd(date_str.day)
    ELSE ValueError

\* ------------------------------------------------------------------------
\* DAG configs: the "tasks" list of a dag_config, listed in TaskOrder, each
\* entry with task_id, task_type and its depends_on list (a list: an id may
\* repeat, and may name a task that is not in the DAG)
\* ------------------------------------------------------------------------
\* ways to give the tasks ts depends_on lists with at most budget entries
RECURSIVE DepLists(_, _)
DepLists(ts, budget) ==
    IF ts = <<>> THEN {<<>>}
    ELSE UNION {{<<s>> \o rest : rest \in DepLists(Tail(ts), budget - Len(s))} :
                s \in SeqsUpTo(TaskIds, budget)}

OrderOf(D) == SelectSeq(WideOrder, LAMBDA t : t \in D)

PosIn(ts, t) == CHOOSE i \in 1..Len(ts) : ts[i] = t

\* the task lists over TaskIds with task types of types and at most budget
\* depends_on entries
TaskListsWith(types, budget) ==
    UNION {{[t \in D |-> [task_id |-> t, task_type |-> ty[t],
                          depends_on |-> deps[PosIn(OrderOf(D), t)]]] :
            ty \in [D -> types], deps \in DepLists(OrderOf(D), budget)} :
           D \in SUBSET TaskIds}

TaskLists == TaskListsWith(TaskTypes, MaxEdges)

\* ------------------------------------------------------------------------
\* DAGExecutor: build_dag, _validate_no_cycles, topological_sort
\* ------------------------------------------------------------------------
\* TaskNode as constructed by build_dag
TaskNode(task_cfg) ==
    [task_id |-> task_cfg.task_id, task_type |-> task_cfg.task_type,
     depends_on |-> task_cfg.depends_on, status |-> PENDING,
     error_message |-> None]

\* in_degree of both Kahn passes: one per depends_on entry naming a task of
\* the DAG
in_degree(tasks) ==
    [t \in DOMAIN tasks |-> CountIn(tasks[t].depends_on, DOMAIN tasks)]

\* the while loop of _validate_no_cycles: pops tid, lowers by one the
\* in_degree of every node that lists tid (once per node), appends the nodes
\* that reach zero; returns visited
RECURSIVE KahnVisit(_, _, _, _)
KahnVisit(tasks, deg, queue, visited) ==
    IF queue = <<>> THEN visited
    ELSE LET tid == Head(queue)
             hit(n) == tid \in Range(tasks[n].depends_on)
             deg2 == [n \in DOMAIN tasks |-> IF hit(n) THEN deg[n] - 1 ELSE deg[n]]
             more == SelectSeq(OrderOf(DOMAIN tasks),
                               LAMBDA n : hit(n) /\ deg2[n] = 0)
         IN KahnVisit(tasks, deg2, Tail(queue) \o more, visited + 1)

\* mutant of validate_no_cycles: a task's dependency on itself is not counted
validate_no_cycles_skip_self(tasks) ==
    LET deg == [t \in DOMAIN tasks |->
                   CountIn(tasks[t].depends_on, DOMAIN tasks \ {t})]
        queue == SelectSeq(OrderOf(DOMAIN tasks), LAMBDA t : deg[t] = 0)
    IN KahnVisit(tasks, deg, queue, 0) = Cardinality(DOMAIN tasks)

validate_no_cycles(tasks) ==
    LET deg == in_degree(tasks)
        queue == SelectSeq(OrderOf(DOMAIN tasks), LAMBDA t : deg[t] = 0)
    IN KahnVisit(tasks, deg, queue, 0) = Cardinality(DOMAIN tasks)

\* mutant of unknown_dependency: only the first entry of each list is checked
unknown_dependency_first_only(tasks) ==
    \E t \in DOMAIN tasks :
        /\ tasks[t].depends_on # <<>>
        /\ tasks[t].depends_on[1] \notin DOMAIN tasks

\* the unknown-dependency loop of build_dag
unknown_dependency(tasks) ==
    \E t \in DOMAIN tasks : \E i \in 1..Len(tasks[t].depends_on) :
        tasks[t].depends_on[i] \notin DOMAIN tasks

\* build_dag: "cycle" / "unknown" when it raises ValueError, else the tasks
\* of the DAGRun
build_dag(task_list) ==
    LET tasks == [t \in DOMAIN task_list |-> TaskNode(task_list[t])]
    IN IF ~validate_no_cycles(tasks) THEN [raised |-> "cycle"]
       ELSE IF unknown_dependency(tasks) THEN [raised |-> "unknown"]
       ELSE [raised |-> "no", tasks |-> tasks]

\* dependents[dep] of topological_sort: one entry per depends_on entry
RECURSIVE DependentsFrom(_, _, _)
DependentsFrom(tasks, order, dep) ==
    IF order = <<>> THEN <<>>
    ELSE SelectSeq([i \in 1..Len(tasks[Head(order)].depends_on) |->
                        IF tasks[Head(order)].depends_on[i] = dep
                        THEN Head(order) ELSE "-"],
                   LAMBDA x : x # "-")
         \o DependentsFrom(tasks, Tail(order), dep)

dependents(tasks, dep) == DependentsFrom(tasks, OrderOf(DOMAIN tasks), dep)

\* mutant of LowerDegrees: a task joins the next layer as soon as one of
\* its dependencies is in the layer
RECURSIVE LowerDegrees_release_early(_, _, _)
LowerDegrees_release_early(todo, deg, next_queue) ==
    IF todo = <<>> THEN [deg |-> deg, next_queue |-> next_queue]
    ELSE LET d == Head(todo)
             deg2 == [deg EXCEPT ![d] = @ - 1]
         IN LowerDegrees_release_early(Tail(todo), deg2,
                                       IF d \in Range(next_queue)
                                       THEN next_queue
                                       ELSE Append(next_queue, d))

\* the two inner for loops of topological_sort over one layer: todo is the
\* concatenation of dependents[tid] for tid in layer
RECURSIVE LowerDegrees(_, _, _)
LowerDegrees(todo, deg, next_queue) ==
    IF todo = <<>> THEN [deg |-> deg, next_queue |-> next_queue]
    ELSE LET d == Head(todo)
             deg2 == [deg EXCEPT ![d] = @ - 1]
         IN LowerDegrees(Tail(todo), deg2,
                         IF deg2[d] = 0 THEN Append(next_queue, d) ELSE next_queue)

RECURSIVE Flatten(_)
Flatten(ss) == IF ss = <<>> THEN <<>> ELSE Head(ss) \o Flatten(Tail(ss))

RECURSIVE SortLayers(_, _, _, _)
SortLayers(tasks, deg, queue, layers) ==
    IF queue = <<>> THEN layers
    ELSE LET todo == Flatten([i \in 1..Len(queue) |-> dependents(tasks, queue[i])])
             r == LowerDegrees(todo, deg, <<>>)
         IN SortLayers(tasks, r.deg, r.next_queue, Append(layers, queue))

topological_sort(tasks) ==
    LET deg == in_degree(tasks)
        queue == SelectSeq(OrderOf(DOMAIN tasks), LAMBDA t : deg[t] = 0)
    IN SortLayers(tasks, deg, queue, <<>>)

\* ------------------------------------------------------------------------
\* State
\* ------------------------------------------------------------------------
VARIABLES
    dags,          \* DAGConfigManager._config["dags"]: list of dag configs
    clock,         \* wall clock, in seconds (datetime.now())
    requests,      \* number of run_dag requests received so far
    req,           \* frame of the run_dag request being served
    response,      \* what the last finished run_dag request answered
    pc,            \* position of execute_dag: idle / layer / pool / aggregate
    dag_run,       \* the DAGRun of the running execute_dag, else None
    layers,        \* layers computed by topological_sort for dag_run
    layer_idx,     \* index (from 1) of the layer being executed
    futs,          \* task_id -> state of the future submitted for it in this run
    calls,         \* bag of executor invocations [engine, task_id, date]
    dag_run_log,   \* table dag_run_log, in insertion order
    dag_task_log   \* table dag_task_log, a bag of rows

VARIABLES
    today,             \* the current calendar day (datetime.today())
    sync_log,          \* table sync_log: data_type -> last_date, or None
    sync_log_history,  \* table sync_log_history, in insertion order
    sync_table,        \* rows of the target tables: a bag of [table, key]
    sync_calls,        \* the execute_task calls made so far, in order
    sync_frame,        \* frame of the execute_task call in progress
    sync_result,       \* return value of the last finished execute_task call
    sync_count         \* number of execute_task calls made so far

syncVars == <<today, sync_log, sync_log_history, sync_table, sync_calls,
              sync_frame, sync_result, sync_count>>

VARIABLES
    time_now,        \* time.time(), in ticks (TicksPerMinute to the minute)
    last_call_time,  \* RateLimiter.last_call_time of the shared limiter
    retry_policy,    \* RetryPolicy of the client: max_attempts, base_delay
    workers,         \* thread -> frame of its call_api call
    api_log,         \* the api_func invocations made, in order: thread, time
    api_count        \* number of call_api calls made so far

apiVars == <<time_now, last_call_time, retry_policy, workers, api_log,
             api_count>>

dagVars == <<dags, clock, requests, req, response, pc, dag_run, layers,
             layer_idx, futs, calls, dag_run_log, dag_task_log>>

VARIABLES
    db_failing,       \* the tables whose write statements raise
    registry,         \* FactorRegistry._factors: factor_id -> the registered
                      \* definition
    trade_cal,        \* table trade_cal: the days with is_open = 1
    trading_days,     \* TradingCalendar._trading_days
    factor_metadata,  \* table factor_metadata: factor_id -> last_computed_date
    factor_params,    \* table factor_metadata: factor_id -> the preprocess
                      \* options of column params
    factor_values,    \* table factor_values: a bag of rows [ts_code,
                      \* trade_date, factor_id, factor_value]
    factor_task_run,  \* table factor_task_run, in insertion order
    factor_runs,      \* the run_task calls made so far, in order
    factor_count      \* number of run_task calls made so far

factorVars == <<db_failing, registry, trade_cal, trading_days,
                factor_metadata, factor_params, factor_values,
                factor_task_run, factor_runs, factor_count>>

\* FlowParser._topo_sort
VARIABLES
    flow_graph,   \* the graph given: nodes, the keys of the dict in insertion
                  \* order; edges, the list of <<source, target>>
    flow_order    \* [done, order]: whether _topo_sort was called on it and
                  \* the list it returned

flowVars == <<flow_graph, flow_order>>

\* DAGConfigManager.add_dag / update_dag / delete_dag
VARIABLES
    config_call   \* the last call made: op, dag_id and whether it raised
                  \* ValueError; None before the first call

configVars == <<config_call>>

\* DAGExecutor.__init__: max_workers of the worker pool
max_workers == 3

Idle == [mode |-> "idle"]
NoFuts == [t \in AllTaskIds |-> "none"]

\* DAGConfigManager.get_dag
RECURSIVE FirstDag(_, _)
FirstDag(ds, dag_id) ==
    IF ds = <<>> THEN None
    ELSE IF Head(ds).dag_id = dag_id THEN Head(ds)
    ELSE FirstDag(Tail(ds), dag_id)

\* mutant of get_dag: no DAG is found
get_dag_none(dag_id) == None

get_dag(dag_id) == FirstDag(dags, dag_id)

\* run_id / backfill_id: f"{dag_id}_{now:%Y%m%d_%H%M%S}", the dag id and
\* the current second
stamp_id(dag_id, now) == <<dag_id, now>>

\* a write statement on table raises
db_raises(table) == table \in db_failing

\* mutant of audit_except: no handler, the exception leaves the helper
audit_except_unguarded(failed) == IF failed THEN "raised" ELSE "written"

\* the handler "except Exception as e: logger...(e)" that closes the try
\* block of an audit helper; failed: a statement of the block raised
audit_except(failed) == IF failed THEN "swallowed" ELSE "written"

\* the exception of a failed write on table leaves the helper that made it
audit_escapes(table) == audit_except(db_raises(table)) = "raised"

\* _save_dag_run: INSERT INTO dag_run_log
save_dag_run(log, run, trigger_type, run_type, backfill_id) ==
    IF audit_except(db_raises("dag_run_log")) # "written" THEN log
    ELSE
    Append(log, [dag_id |-> run.dag_id, run_id |-> run.run_id,
                 status |-> run.status, target_date |-> run.target_date,
                 trigger_type |-> trigger_type, run_type |-> run_type,
                 backfill_id |-> backfill_id])

\* _update_dag_run: UPDATE dag_run_log SET status WHERE run_id
update_dag_run(log, run) ==
    IF audit_except(db_raises("dag_run_log")) # "written" THEN log
    ELSE
    [i \in 1..Len(log) |->
        IF log[i].run_id = run.run_id
        THEN [log[i] EXCEPT !.status = run.status] ELSE log[i]]

\* _save_task_log: INSERT INTO dag_task_log
save_task_log(log, run_id, node) ==
    IF audit_except(db_raises("dag_task_log")) # "written" THEN log
    ELSE
    log (+) SetToBag({[run_id |-> run_id, task_id |-> node.task_id,
                       task_type |-> node.task_type, status |-> node.status,
                       error_message |-> node.error_message]})

\* ORDER BY target_date of rows whose target_date is %Y%m%d text
RECURSIVE order_by_target_date(_)
order_by_target_date(rows) ==
    IF rows = <<>> THEN <<>>
    ELSE LET first == CHOOSE i \in 1..Len(rows) :
                          \A j \in 1..Len(rows) :
                              \/ rows[i].target_date.day < rows[j].target_date.day
                              \/ /\ rows[i].target_date.day = rows[j].target_date.day
                                 /\ i <= j
         IN <<rows[first]>>
                \o order_by_target_date(
                       [k \in 1..(Len(rows) - 1) |->
                           IF k < first THEN rows[k] ELSE rows[k + 1]])

\* get_backfill_summary: the dag_run_log rows of a backfill batch, counted
get_backfill_summary(backfill_id) ==
    LET runs == order_by_target_date(
                    SelectSeq(dag_run_log,
                              LAMBDA r : r.backfill_id = backfill_id))
    IN IF runs = <<>> THEN None
       ELSE [backfill_id |-> backfill_id,
             dag_id |-> runs[1].dag_id,
             total_days |-> Len(runs),
             success_days |-> CountIn([i \in 1..Len(runs) |-> runs[i].status],
                                      {"success"}),
             failed_days |-> CountIn([i \in 1..Len(runs) |-> runs[i].status],
                                     {"failed"}),
             runs |-> runs]

\* mutant of should_skip: every task with a dependency is skipped
should_skip_with_dependency(node, tasks) ==
    \E i \in 1..Len(node.depends_on) : node.depends_on[i] \in DOMAIN tasks

\* mutant of should_skip: a skipped dependency does not skip the task
should_skip_failed_only(node, tasks) ==
    \E i \in 1..Len(node.depends_on) :
        /\ node.depends_on[i] \in DOMAIN tasks
        /\ tasks[node.depends_on[i]].status = FAILED

\* _should_skip
should_skip(node, tasks) ==
    \E i \in 1..Len(node.depends_on) :
        /\ node.depends_on[i] \in DOMAIN tasks
        /\ tasks[node.depends_on[i]].status \in {FAILED, SKIPPED}

\* mutant of aggregate_status: anything but all-success is failed
aggregate_status_strict(tasks) ==
    IF \A t \in DOMAIN tasks : tasks[t].status = SUCCESS THEN SUCCESS
    ELSE FAILED

\* lines 255-261 of execute_dag: the status of the run from its tasks
aggregate_status(tasks) ==
    IF \A t \in DOMAIN tasks : tasks[t].status = SUCCESS THEN SUCCESS
    ELSE IF \E t \in DOMAIN tasks : tasks[t].status = FAILED THEN FAILED
    ELSE SUCCESS

\* _build_dag_run_result
build_dag_run_result(run) ==
    [run_id |-> run.run_id, dag_id |-> run.dag_id, status |-> run.status,
     tasks |-> [t \in DOMAIN run.tasks |->
                   [status |-> run.tasks[t].status,
                    error_message |-> run.tasks[t].error_message]]]

\* ------------------------------------------------------------------------
\* run_dag (the request handler) and execute_dag
\* ------------------------------------------------------------------------
\* day d is a Monday..Friday (datetime.weekday() < 5; day 0 is a Monday)
is_weekday(d) == (d % 7) < 5

\* _generate_trading_dates: the weekdays of [start, end] as %Y%m%d text, or
\* ValueError from normalize_date
generate_trading_dates(start_date, end_date) ==
    LET norm_start == normalize_date(start_date)
        norm_end == normalize_date(end_date)
    IN IF norm_start = ValueError \/ norm_end = ValueError THEN ValueError
       ELSE [raised |-> "no",
             dates |-> SelectSeq([i \in 1..(MaxDay + 1) |-> Ymd(i - 1)],
                                 LAMBDA x : /\ norm_start.day <= x.day
                                            /\ x.day <= norm_end.day
                                            /\ is_weekday(x.day))]

\* execute_dag lines 216-231, called by run_dag with frame: get_dag,
\* build_dag, _save_dag_run, topological_sort.  A ValueError leaves
\* execute_dag and is answered 404 by run_dag (line 1036), any other
\* exception 500 (line 1038).
ExecuteDagEntry(frame) ==
    LET dag_config == get_dag(frame.dag_id)
        built == IF dag_config = None THEN [raised |-> "not_found"]
                 ELSE build_dag(dag_config.tasks)
    IN IF built.raised # "no"
       THEN /\ response' = [status |-> "error", code |-> 404,
                            detail |-> built.raised]
            /\ req' = Idle
            /\ UNCHANGED <<pc, dag_run, layers, layer_idx, futs, dag_run_log>>
       ELSE IF audit_escapes("dag_run_log")
       THEN /\ response' = [status |-> "error", code |-> 500,
                            detail |-> "dag_run_log"]
            /\ req' = Idle
            /\ UNCHANGED <<pc, dag_run, layers, layer_idx, futs, dag_run_log>>
       ELSE LET run == [dag_id |-> frame.dag_id,
                        run_id |-> stamp_id(frame.dag_id, clock),
                        tasks |-> built.tasks, status |-> RUNNING,
                        target_date |-> Head(frame.dates)]
                ls == topological_sort(run.tasks)
            IN /\ dag_run' = run
               /\ dag_run_log' = save_dag_run(dag_run_log, run, "manual",
                                              frame.run_type, frame.backfill_id)
               /\ layers' = ls
               /\ layer_idx' = 1
               /\ futs' = NoFuts
               /\ pc' = IF ls = <<>> THEN "aggregate" ELSE "layer"
               /\ req' = frame
               /\ response' = None

\* run_dag, single-day mode (lines 1031-1033), into execute_dag
RunDagSingle(dag_id, target_date, run_type) ==
    /\ req = Idle
    /\ requests' = requests + 1
    /\ ExecuteDagEntry(
          [mode |-> "single", dag_id |-> dag_id, dates |-> <<target_date>>,
           run_type |-> IF run_type # "backfill" THEN run_type ELSE "single",
           backfill_id |-> None, n_dates |-> 1, results |-> <<>>,
           total_success |-> 0, total_failed |-> 0])
    /\ UNCHANGED <<dags, clock, calls, dag_task_log>>
    /\ UNCHANGED syncVars
    /\ UNCHANGED apiVars
    /\ UNCHANGED factorVars
    /\ UNCHANGED flowVars
    /\ UNCHANGED configVars

\* run_dag, date-range mode (lines 995-1002): up to the first execute_dag
\* call; the HTTPException of an empty range is re-raised as a 500 by the
\* handler's "except Exception"
RunDagBackfill(dag_id, start_date, end_date) ==
    /\ req = Idle
    /\ requests' = requests + 1
    /\ LET g == generate_trading_dates(start_date, end_date)
       IN IF g = ValueError
          THEN /\ response' = [status |-> "error", code |-> 404,
                               detail |-> "date"]
               /\ req' = Idle
          ELSE IF g.dates = <<>>
          THEN /\ response' = [status |-> "error", code |-> 500,
                               detail |-> "no trading days"]
               /\ req' = Idle
          ELSE /\ response' = None
               /\ req' = [mode |-> "backfill", dag_id |-> dag_id,
                          start_date |-> start_date, end_date |-> end_date,
                          dates |-> g.dates, run_type |-> "backfill",
                          backfill_id |-> stamp_id(dag_id, clock),
                          n_dates |-> Len(g.dates), results |-> <<>>,
                          total_success |-> 0, total_failed |-> 0]
    /\ UNCHANGED <<dags, clock, pc, dag_run, layers, layer_idx, futs, calls,
                   dag_run_log, dag_task_log>>
    /\ UNCHANGED syncVars
    /\ UNCHANGED apiVars
    /\ UNCHANGED factorVars
    /\ UNCHANGED flowVars
    /\ UNCHANGED configVars

\* run_dag lines 1005-1007: the execute_dag call for the next date of a
\* backfill
ExecuteDagNext ==
    /\ req # Idle
    /\ pc = "idle"
    /\ ExecuteDagEntry(req)
    /\ UNCHANGED <<dags, clock, requests, calls, dag_task_log>>
    /\ UNCHANGED syncVars
    /\ UNCHANGED apiVars
    /\ UNCHANGED factorVars
    /\ UNCHANGED flowVars
    /\ UNCHANGED configVars

\* lines 235-244: the for loop over one layer; raised: an exception left
\* the loop, for the handler of line 262
RECURSIVE PrepareLayer(_, _, _, _, _)
PrepareLayer(layer, run_id, tasks, log, runnable) ==
    IF layer = <<>> THEN [tasks |-> tasks, log |-> log, runnable |-> runnable,
                          raised |-> FALSE]
    ELSE LET tid == Head(layer)
         IN IF should_skip(tasks[tid], tasks)
            THEN LET node == [tasks[tid] EXCEPT
                                 !.status = SKIPPED,
                                 !.error_message = Str("Dependency failed")]
                 IN IF audit_escapes("dag_task_log")
                    THEN [tasks |-> [tasks EXCEPT ![tid] = node], log |-> log,
                          runnable |-> runnable, raised |-> TRUE]
                    ELSE
                    PrepareLayer(Tail(layer), run_id,
                                 [tasks EXCEPT ![tid] = node],
                                 save_task_log(log, run_id, node), runnable)
            ELSE PrepareLayer(Tail(layer), run_id,
                              [tasks EXCEPT ![tid].status = WAITING],
                              log, Append(runnable, tid))

\* where execute_dag goes after a layer
AfterLayer ==
    IF layer_idx < Len(layers)
    THEN /\ layer_idx' = layer_idx + 1
         /\ pc' = "layer"
    ELSE /\ layer_idx' = layer_idx
         /\ pc' = "aggregate"

\* lines 233-248: mark the tasks of the layer skipped or waiting and submit
\* the runnable ones to a new ThreadPoolExecutor
LayerSubmit ==
    /\ pc = "layer"
    /\ LET r == PrepareLayer(layers[layer_idx], dag_run.run_id, dag_run.tasks,
                             dag_task_log, <<>>)
       IN /\ dag_run' = [dag_run EXCEPT !.tasks = r.tasks]
          /\ dag_task_log' = r.log
          /\ IF r.raised
             THEN /\ futs' = futs
                  /\ layer_idx' = layer_idx
                  /\ pc' = "except"
             ELSE IF r.runnable # <<>>
             THEN /\ futs' = [t \in AllTaskIds |->
                                 IF t \in Range(r.runnable) THEN "queued"
                                 ELSE futs[t]]
                  /\ pc' = "pool"
                  /\ UNCHANGED layer_idx
             ELSE /\ futs' = futs
                  /\ AfterLayer
    /\ UNCHANGED <<dags, clock, requests, req, response, layers, calls,
                   dag_run_log>>
    /\ UNCHANGED syncVars
    /\ UNCHANGED apiVars
    /\ UNCHANGED factorVars
    /\ UNCHANGED flowVars
    /\ UNCHANGED configVars

\* tasks a pool worker is executing
Active == {t \in AllTaskIds : futs[t] \in {"started", "calling"}}

\* submitted tasks that are ahead of t in the pool's FIFO work queue
QueuedBefore(t) ==
    LET order == Flatten(layers)
    IN {u \in Range(order) : futs[u] = "queued" /\ PosIn(order, u) < PosIn(order, t)}

\* a free worker may have taken t from the work queue
worker_free_for(t) ==
    Cardinality(Active) + Cardinality(QueuedBefore(t)) < max_workers

\* _execute_task lines 281-284: status RUNNING, first task log row
TaskStart(t) ==
    /\ pc = "pool"
    /\ futs[t] = "queued"
    /\ worker_free_for(t)
    /\ LET node == [dag_run.tasks[t] EXCEPT !.status = RUNNING]
       IN /\ dag_run' = [dag_run EXCEPT !.tasks[t] = node]
          /\ dag_task_log' = save_task_log(dag_task_log, dag_run.run_id, node)
    /\ futs' = [futs EXCEPT ![t] = IF audit_escapes("dag_task_log")
                                   THEN "exception" ELSE "started"]
    /\ UNCHANGED <<dags, clock, requests, req, response, pc, layers,
                   layer_idx, calls, dag_run_log>>
    /\ UNCHANGED syncVars
    /\ UNCHANGED apiVars
    /\ UNCHANGED factorVars
    /\ UNCHANGED flowVars
    /\ UNCHANGED configVars

\* _execute_task lines 287-295: normalize_date (outside the try: its
\* ValueError ends the future), then the dispatch on task_type; an unknown
\* type raises inside the try and is recorded by lines 297-303
TaskDispatch(t) ==
    /\ pc = "pool"
    /\ futs[t] = "started"
    /\ LET node == dag_run.tasks[t]
           normalized_date == normalize_date(dag_run.target_date)
       IN IF normalized_date = ValueError
          THEN /\ futs' = [futs EXCEPT ![t] = "exception"]
               /\ UNCHANGED <<dag_run, calls, dag_task_log>>
          ELSE IF node.task_type \in {"sync", "production"}
          THEN /\ calls' = calls (+) SetToBag({[engine |-> node.task_type,
                                                task_id |-> t,
                                                date |-> normalized_date]})
               /\ futs' = [futs EXCEPT ![t] = "calling"]
               /\ UNCHANGED <<dag_run, dag_task_log>>
          ELSE LET failed == [node EXCEPT !.status = FAILED,
                                          !.error_message = Str("Unknown task type")]
               IN /\ dag_run' = [dag_run EXCEPT !.tasks[t] = failed]
                  /\ dag_task_log' = save_task_log(dag_task_log,
                                                   dag_run.run_id, failed)
                  /\ futs' = [futs EXCEPT ![t] =
                                  IF audit_escapes("dag_task_log")
                                  THEN "exception" ELSE "done"]
                  /\ UNCHANGED calls
    /\ UNCHANGED <<dags, clock, requests, req, response, pc, layers,
                   layer_idx, dag_run_log>>
    /\ UNCHANGED syncVars
    /\ UNCHANGED apiVars
    /\ UNCHANGED factorVars
    /\ UNCHANGED flowVars
    /\ UNCHANGED configVars

\* what sync_task / run_task may do: return True, return False, raise
Outcomes == {"true", "false", "raise"}

\* node after the executor call ended with outcome (lines 296-299)
task_result(node, outcome) ==
    IF outcome = "true" THEN [node EXCEPT !.status = SUCCESS]
    ELSE IF outcome = "false" THEN [node EXCEPT !.status = FAILED]
    ELSE [node EXCEPT !.status = FAILED, !.error_message = Str("executor raised")]

\* _execute_task lines 296-304: the executor call ends; final status and
\* second task log row
TaskReturn(t, outcome) ==
    /\ pc = "pool"
    /\ futs[t] = "calling"
    /\ LET node == task_result(dag_run.tasks[t], outcome)
       IN /\ dag_run' = [dag_run EXCEPT !.tasks[t] = node]
          /\ dag_task_log' = save_task_log(dag_task_log, dag_run.run_id, node)
    /\ futs' = [futs EXCEPT ![t] = IF audit_escapes("dag_task_log")
                                   THEN "exception" ELSE "done"]
    /\ UNCHANGED <<dags, clock, requests, req, response, pc, layers,
                   layer_idx, calls, dag_run_log>>
    /\ UNCHANGED syncVars
    /\ UNCHANGED apiVars
    /\ UNCHANGED factorVars
    /\ UNCHANGED flowVars
    /\ UNCHANGED configVars

\* mutant of layer_complete: the first ended future ends the wait
layer_complete_first_done ==
    \E t \in Range(layers[layer_idx]) : futs[t] \in {"done", "exception"}

\* every future of the layer's pool has ended (with a result or an
\* exception)
layer_complete ==
    \A t \in Range(layers[layer_idx]) : futs[t] \in {"none", "done", "exception"}

\* lines 247-253: leaving the "with ThreadPoolExecutor" block
PoolJoin ==
    /\ pc = "pool"
    /\ layer_complete
    /\ AfterLayer
    /\ UNCHANGED <<dags, clock, requests, req, response, dag_run, layers,
                   futs, calls, dag_run_log, dag_task_log>>
    /\ UNCHANGED syncVars
    /\ UNCHANGED apiVars
    /\ UNCHANGED factorVars
    /\ UNCHANGED flowVars
    /\ UNCHANGED configVars

\* execute_dag lines 255-270 (after the handler of line 262 when pc is
\* "except") and the rest of run_dag for this day (lines
\* 1008-1014, 1034-1035; the response of lines 1016-1029 after the last day)
ExecuteDagFinish ==
    /\ pc \in {"aggregate", "except"}
    /\ LET run == [dag_run EXCEPT
                      !.status = IF pc = "except" THEN FAILED
                                 ELSE aggregate_status(dag_run.tasks)]
           result == build_dag_run_result(run)
                         @@ [target_date |-> Head(req.dates)]
           ok == result.status = "success"
           frame == [req EXCEPT
                        !.dates = Tail(@),
                        !.results = Append(@, result),
                        !.total_success = IF ok THEN @ + 1 ELSE @,
                        !.total_failed = IF ok THEN @ ELSE @ + 1]
       IN /\ dag_run' = run
          /\ dag_run_log' = update_dag_run(dag_run_log, run)
          /\ IF audit_escapes("dag_run_log")
             THEN /\ response' = [status |-> "error", code |-> 500,
                                  detail |-> "dag_run_log"]
                  /\ req' = Idle
             ELSE IF req.mode = "single"
             THEN /\ response' = [status |-> "success", mode |-> "single",
                                  data |-> build_dag_run_result(run)]
                  /\ req' = Idle
             ELSE IF frame.dates = <<>>
             THEN /\ response' = [status |-> "success", mode |-> "backfill",
                                  dag_id |-> frame.dag_id,
                                  backfill_id |-> frame.backfill_id,
                                  total_days |-> frame.n_dates,
                                  success_days |-> frame.total_success,
                                  failed_days |-> frame.total_failed,
                                  runs |-> frame.results]
                  /\ req' = Idle
             ELSE /\ response' = response
                  /\ req' = frame
    /\ pc' = "idle"
    /\ UNCHANGED <<dags, clock, requests, layers, layer_idx, futs, calls,
                   dag_task_log>>
    /\ UNCHANGED syncVars
    /\ UNCHANGED apiVars
    /\ UNCHANGED factorVars
    /\ UNCHANGED flowVars
    /\ UNCHANGED configVars

\* a second passes
Tick ==
    /\ clock < MaxClock
    /\ clock' = clock + 1
    /\ UNCHANGED <<dags, requests, req, response, pc, dag_run, layers,
                   layer_idx, futs, calls, dag_run_log, dag_task_log>>
    /\ UNCHANGED syncVars
    /\ UNCHANGED apiVars
    /\ UNCHANGED factorVars
    /\ UNCHANGED flowVars
    /\ UNCHANGED configVars

\* ------------------------------------------------------------------------
\* SyncTaskExecutor and SyncLogManager (sync_components.py)
\* ------------------------------------------------------------------------
\* the sync task configs execute_task is called with: one task per branch
\* of execute_task
SyncConfig ==
    [s1 |-> [task_id |-> "s1", sync_type |-> "incremental", enabled |-> TRUE],
     s2 |-> [task_id |-> "s2", sync_type |-> "full", enabled |-> TRUE],
     s3 |-> [task_id |-> "s3", sync_type |-> "incremental", enabled |-> FALSE],
     s4 |-> [task_id |-> "s4", sync_type |-> "snapshot", enabled |-> TRUE]]
SyncTaskIds == DOMAIN SyncConfig

SyncIdle == [mode |-> "idle"]

\* Python's x > y on two date strings of the same year: texts of one layout
\* compare as their days do; across layouts the fifth character decides,
\* and a digit is greater than '-'
str_gt(x, y) ==
    IF x.fmt = y.fmt THEN x.day > y.day
    ELSE x.fmt = "%Y%m%d"

\* DateUtils.today
date_today == Ymd(today)

\* mutant of add_days: the date itself
add_days_none(date_str, days) == date_str

\* DateUtils.add_days(date_str, days), date_str in %Y%m%d
add_days(date_str, days) == Ymd(date_str.day + days)

\* mutant of get_date_range: the end day is left out
get_date_range_end_excluded(start_date, end_date) ==
    IF start_date.fmt # "%Y%m%d" \/ end_date.fmt # "%Y%m%d" THEN ValueError
    ELSE [raised |-> "no",
          dates |-> [i \in 1..(IF end_date.day > start_date.day
                               THEN end_date.day - start_date.day
                               ELSE 0) |-> Ymd(start_date.day + i - 1)]]

\* DateUtils.get_date_range: strptime(..., "%Y%m%d") raises ValueError on
\* any other layout; else the days from start to end, both included
get_date_range(start_date, end_date) ==
    IF start_date.fmt # "%Y%m%d" \/ end_date.fmt # "%Y%m%d" THEN ValueError
    ELSE [raised |-> "no",
          dates |-> [i \in 1..(IF end_date.day >= start_date.day
                               THEN end_date.day - start_date.day + 1
                               ELSE 0) |-> Ymd(start_date.day + i - 1)]]

\* SyncLogManager.get_last_sync_date
get_last_sync_date(task_id) == sync_log[task_id]

\* repository.bulk_copy of the repository RefactoredSyncEngine hands to
\* SyncLogManager, store.postgres_client.db_client: PostgreSQLClient defines
\* no bulk_copy, the attribute lookup raises AttributeError
AttributeError == [raised |-> "AttributeError"]
bulk_copy(table, row) == AttributeError

\* SyncLogManager.update_sync_log: upsert of the sync_log row keyed by
\* (source, data_type), then bulk_copy of one sync_log_history row; an
\* exception of either is logged and swallowed (line 177)
update_sync_log(task_id, sync_date, rows_synced) ==
    LET appended == bulk_copy(sync_log_history,
                              [data_type |-> task_id, last_date |-> sync_date,
                               sync_date |-> sync_date,
                               rows_synced |-> rows_synced,
                               status |-> "success"])
    IN /\ sync_log' = IF db_raises("sync_log") THEN sync_log
                      ELSE [sync_log EXCEPT ![task_id] = sync_date]
       /\ sync_log_history' = IF db_raises("sync_log")
                                 \/ appended = AttributeError
                              THEN sync_log_history ELSE appended

\* how update_sync_log ends: both rows written, or the exception of the
\* upsert or of bulk_copy handled at line 177
update_sync_log_end ==
    audit_except(db_raises("sync_log")
                     \/ bulk_copy(sync_log_history, None) = AttributeError)

\* mutant of incremental_range: the sync resumes on the day of the
\* watermark, not on the day after
incremental_range_from_watermark(task_id, target_date, end_date) ==
    IF target_date = None
    THEN LET last_date == get_last_sync_date(task_id)
         IN [start_date |-> IF last_date # None THEN last_date
                            ELSE date_today,
             target_date |-> IF end_date # None THEN end_date ELSE date_today]
    ELSE [start_date |-> target_date,
          target_date |-> IF end_date # None THEN end_date ELSE target_date]

\* mutant of incremental_range: without a watermark the range starts at
\* the first day of the calendar
incremental_range_from_first_day(task_id, target_date, end_date) ==
    IF target_date = None
    THEN LET last_date == get_last_sync_date(task_id)
         IN [start_date |-> IF last_date # None THEN add_days(last_date, 1)
                            ELSE Ymd(FirstDay),
             target_date |-> IF end_date # None THEN end_date ELSE date_today]
    ELSE [start_date |-> target_date,
          target_date |-> IF end_date # None THEN end_date ELSE target_date]

\* _execute_incremental_sync lines 380-394: the date range to sync
incremental_range(task_id, target_date, end_date) ==
    IF target_date = None
    THEN LET last_date == get_last_sync_date(task_id)
         IN [start_date |-> IF last_date # None THEN add_days(last_date, 1)
                            ELSE date_today,
             target_date |-> IF end_date # None THEN end_date ELSE date_today]
    ELSE [start_date |-> target_date,
          target_date |-> IF end_date # None THEN end_date ELSE target_date]

\* the rows one successful API call returns: one per security, keyed by
\* the primary keys (trade_date, ts_code); trade_date is None for the
\* dimension data of a full sync
Codes == {"x", "y"}
api_rows(date_str) == {[trade_date |-> date_str, ts_code |-> c] : c \in Codes}

\* repository.upsert (INSERT ... ON CONFLICT (key_columns) DO UPDATE): the
\* stored rows with a key of df are replaced, the others of df are added
upsert(rows, table_name, df) ==
    LET incoming == {[table |-> table_name, key |-> k] : k \in df}
    IN [r \in (BagToSet(rows) \ incoming) |-> rows[r]] (+) SetToBag(incoming)

\* the record kept of an execute_task call: its arguments, whether
\* ensure_table_exists went through, the watermark, the day and the number
\* of sync_log_history rows at its start, the dates of the API calls it has
\* issued and its return value (once done)
new_call(task_id, target_date, end_date, table_ok) ==
    [task_id |-> task_id, target_date |-> target_date, end_date |-> end_date,
     table_ok |-> table_ok,
     last_date |-> get_last_sync_date(task_id), today |-> date_today,
     history |-> Len(sync_log_history),
     api |-> <<>>, done |-> FALSE, result |-> FALSE]

\* the current call has issued API calls for dates and, if ret is not
\* "running", has returned ret = "true" / "false"
note_call(made, dates, ret) ==
    [made EXCEPT ![Len(made)] =
        [@ EXCEPT !.api = @ \o dates,
                  !.done = (ret # "running"),
                  !.result = (ret = "true")]]

\* the execute_task call returns result
sync_return(result) ==
    /\ sync_result' = result
    /\ sync_frame' = SyncIdle

\* execute_task lines 327-350 with _execute_incremental_sync lines 370-401:
\* up to the first API call.  table_ok: ensure_table_exists did not raise.
execute_task(task_id, target_date, end_date, table_ok) ==
    /\ sync_frame = SyncIdle
    /\ sync_count' = sync_count + 1
    /\ LET task == SyncConfig[task_id]
           r == incremental_range(task_id, target_date, end_date)
           g == get_date_range(r.start_date, r.target_date)
           ret == IF ~task.enabled THEN "true"
                  ELSE IF ~table_ok THEN "false"
                  ELSE IF task.sync_type = "full" THEN "running"
                  ELSE IF task.sync_type = "incremental"
                  THEN IF str_gt(r.start_date, r.target_date) THEN "true"
                       ELSE IF g = ValueError THEN "false"
                       ELSE IF g.dates = <<>> THEN "true"
                       ELSE "running"
                  ELSE "false"
       IN /\ sync_calls' = note_call(
                 Append(sync_calls,
                        new_call(task_id, target_date, end_date, table_ok)),
                 <<>>, ret)
          /\ IF ret # "running" THEN sync_return(ret = "true")
             ELSE /\ sync_frame' = [mode |-> task.sync_type,
                                    task_id |-> task_id,
                                    dates |-> IF task.sync_type = "full"
                                              THEN <<>> ELSE g.dates]
                  /\ sync_result' = None
    /\ UNCHANGED <<today, sync_log, sync_log_history, sync_table>>
    /\ UNCHANGED dagVars
    /\ UNCHANGED apiVars
    /\ UNCHANGED factorVars
    /\ UNCHANGED flowVars
    /\ UNCHANGED configVars

\* what one call_api (and the upsert of its rows) does
ApiOutcomes == {"rows", "empty", "raise"}

\* _execute_full_sync lines 358-368, and the except of execute_task
execute_full_sync(outcome) ==
    /\ sync_frame # SyncIdle
    /\ sync_frame.mode = "full"
    /\ sync_calls' = note_call(sync_calls, <<date_today>>,
                               IF outcome = "rows"
                                  /\ update_sync_log_end # "raised"
                               THEN "true" ELSE "false")
    /\ IF outcome = "raise"
       THEN UNCHANGED <<sync_log, sync_log_history, sync_table>>
       ELSE /\ update_sync_log(sync_frame.task_id, date_today,
                               IF outcome = "rows" THEN Cardinality(Codes)
                               ELSE 0)
            /\ sync_table' = IF outcome = "rows"
                             THEN upsert(sync_table, sync_frame.task_id,
                                         api_rows(None))
                             ELSE sync_table
    /\ sync_return(outcome = "rows" /\ update_sync_log_end # "raised")
    /\ UNCHANGED <<today, sync_count>>
    /\ UNCHANGED dagVars
    /\ UNCHANGED apiVars
    /\ UNCHANGED factorVars
    /\ UNCHANGED flowVars
    /\ UNCHANGED configVars

\* _execute_incremental_sync lines 406-424: one turn of the loop over the
\* dates, and the except of execute_task
execute_incremental_sync(outcome) ==
    /\ sync_frame # SyncIdle
    /\ sync_frame.mode = "incremental"
    /\ LET date_str == Head(sync_frame.dates)
           last == Tail(sync_frame.dates) = <<>>
       IN IF outcome = "raise"
          THEN /\ sync_return(FALSE)
               /\ sync_calls' = note_call(sync_calls, <<date_str>>, "false")
               /\ UNCHANGED <<sync_log, sync_log_history, sync_table>>
          ELSE /\ update_sync_log(sync_frame.task_id, date_str,
                                  IF outcome = "rows" THEN Cardinality(Codes)
                                  ELSE 0)
               /\ sync_table' = IF outcome = "rows"
                                THEN upsert(sync_table, sync_frame.task_id,
                                            api_rows(date_str))
                                ELSE sync_table
               /\ sync_calls' = note_call(sync_calls, <<date_str>>,
                                          IF update_sync_log_end = "raised"
                                          THEN "false"
                                          ELSE IF last THEN "true"
                                          ELSE "running")
               /\ IF update_sync_log_end = "raised" THEN sync_return(FALSE)
                  ELSE IF last THEN sync_return(TRUE)
                  ELSE /\ sync_frame' = [sync_frame EXCEPT !.dates = Tail(@)]
                       /\ sync_result' = sync_result
    /\ UNCHANGED <<today, sync_count>>
    /\ UNCHANGED dagVars
    /\ UNCHANGED apiVars
    /\ UNCHANGED factorVars
    /\ UNCHANGED flowVars
    /\ UNCHANGED configVars

\* midnight passes
NextDay ==
    /\ today < MaxDay
    /\ today' = today + 1
    /\ UNCHANGED <<sync_log, sync_log_history, sync_table, sync_calls,
                   sync_frame, sync_result, sync_count>>
    /\ UNCHANGED dagVars
    /\ UNCHANGED apiVars
    /\ UNCHANGED factorVars
    /\ UNCHANGED flowVars
    /\ UNCHANGED configVars

\* ------------------------------------------------------------------------
\* TushareAPIClient.call_api with RateLimiter and RetryPolicy
\* ------------------------------------------------------------------------
\* CollectorSettings defaults
calls_per_minute == 120
retry_times == 3
retry_delay == 2

\* resolution of the clock: a tick is a quarter of a second for the
\* default rate
TicksPerMinute == 2 * calls_per_minute
TicksPerSecond == TicksPerMinute \div 60

\* RateLimiter.__init__: call_interval = 60.0 / calls_per_minute, in ticks
call_interval == TicksPerMinute \div calls_per_minute

\* threads that may call the client
Threads == {"w1", "w2"}

RECURSIVE Pow(_, _)
Pow(b, n) == IF n = 0 THEN 1 ELSE b * Pow(b, n - 1)

\* mutant of limiter_sleep_time: the limiter never sleeps
limiter_sleep_time_none(now, last) == 0

\* RateLimiter.wait lines 31-34: the time to sleep, 0 for none
limiter_sleep_time(now, last) ==
    LET elapsed == now - last
    IN IF elapsed < call_interval THEN call_interval - elapsed ELSE 0

\* mutant of backoff_delay: the same delay before every retry
backoff_delay_flat(base_delay, attempt) == base_delay

\* RetryPolicy.execute line 67: delay = base_delay ** attempt, in seconds
backoff_delay(base_delay, attempt) == Pow(base_delay, attempt)

\* RetryPolicy.execute line 66: another attempt follows a failed one
retries_left(max_attempts, attempt) == attempt < max_attempts - 1

\* a thread outside call_api; outcomes, sleeps, returned and error
\* describe its last call: the result of each attempt, the retry delays
\* slept (seconds), how the call ended and the attempt whose exception
\* was re-raised
IdleWorker ==
    [pc |-> "idle", attempt |-> 0, wake |-> 0, outcomes |-> <<>>,
     sleeps |-> <<>>, returned |-> "no call", error |-> 0]

\* call_api line 298 and RetryPolicy.execute lines 57-59: thread th enters
\* call_api, first attempt
CallApi(th) ==
    /\ workers[th].pc = "idle"
    /\ api_count' = api_count + 1
    /\ workers' = [workers EXCEPT ![th] =
                      [IdleWorker EXCEPT !.pc = "wait",
                                         !.returned = "running"]]
    /\ UNCHANGED <<time_now, last_call_time, retry_policy, api_log>>
    /\ UNCHANGED dagVars
    /\ UNCHANGED syncVars
    /\ UNCHANGED factorVars
    /\ UNCHANGED flowVars
    /\ UNCHANGED configVars

\* RateLimiter.wait lines 31-34: read the clock and last_call_time, then
\* start sleeping if the interval has not elapsed
LimiterRead(th) ==
    /\ workers[th].pc = "wait"
    /\ LET sleep_time == limiter_sleep_time(time_now, last_call_time)
       IN workers' = [workers EXCEPT ![th] =
                         IF sleep_time > 0
                         THEN [@ EXCEPT !.pc = "sleep",
                                        !.wake = time_now + sleep_time]
                         ELSE [@ EXCEPT !.pc = "stamp"]]
    /\ UNCHANGED <<time_now, last_call_time, retry_policy, api_log, api_count>>
    /\ UNCHANGED dagVars
    /\ UNCHANGED syncVars
    /\ UNCHANGED factorVars
    /\ UNCHANGED flowVars
    /\ UNCHANGED configVars

\* time.sleep ends: of the limiter (line 34) or of the retry delay (line
\* 72, the next attempt then begins)
Wake(th) ==
    /\ workers[th].pc \in {"sleep", "backoff"}
    /\ time_now >= workers[th].wake
    /\ workers' = [workers EXCEPT ![th] =
                      IF @.pc = "sleep" THEN [@ EXCEPT !.pc = "stamp"]
                      ELSE [@ EXCEPT !.pc = "wait", !.attempt = @ + 1]]
    /\ UNCHANGED <<time_now, last_call_time, retry_policy, api_log, api_count>>
    /\ UNCHANGED dagVars
    /\ UNCHANGED syncVars
    /\ UNCHANGED factorVars
    /\ UNCHANGED flowVars
    /\ UNCHANGED configVars

\* RateLimiter.wait line 35, _call lines 292-295 and RetryPolicy.execute
\* lines 60-78: last_call_time is stamped, api_func is invoked and ends
\* with outcome; rows or an empty result end execute, an exception is
\* followed by a retry delay or, after the last attempt, re-raised
ApiCall(th, outcome) ==
    /\ workers[th].pc = "stamp"
    /\ last_call_time' = time_now
    /\ api_log' = Append(api_log, [thread |-> th, at |-> time_now,
                                   attempt |-> workers[th].attempt])
    /\ LET w == [workers[th] EXCEPT !.outcomes = Append(@, outcome)]
           delay == backoff_delay(retry_policy.base_delay, w.attempt)
       IN workers' = [workers EXCEPT ![th] =
              IF outcome = "rows"
              THEN [w EXCEPT !.pc = "idle", !.returned = "rows"]
              ELSE IF outcome = "empty"
              THEN [w EXCEPT !.pc = "idle", !.returned = "none"]
              ELSE IF retries_left(retry_policy.max_attempts, w.attempt)
              THEN [w EXCEPT !.pc = "backoff",
                             !.sleeps = Append(@, delay),
                             !.wake = time_now + delay * TicksPerSecond]
              ELSE [w EXCEPT !.pc = "idle", !.returned = "raised",
                             !.error = w.attempt]]
    /\ UNCHANGED <<time_now, retry_policy, api_count>>
    /\ UNCHANGED dagVars
    /\ UNCHANGED syncVars
    /\ UNCHANGED factorVars
    /\ UNCHANGED flowVars
    /\ UNCHANGED configVars

\* a tick passes
TimePasses ==
    /\ time_now < MaxTime
    /\ time_now' = time_now + 1
    /\ UNCHANGED <<last_call_time, retry_policy, workers, api_log, api_count>>
    /\ UNCHANGED dagVars
    /\ UNCHANGED syncVars
    /\ UNCHANGED factorVars
    /\ UNCHANGED flowVars
    /\ UNCHANGED configVars

\* ------------------------------------------------------------------------
\* ProductionEngine (engine/production/engine.py) and TradingCalendar
\* ------------------------------------------------------------------------
\* the factors in the code: compute_mode, params["lookback_days"] and
\* params["preprocess"] (<<>>: none) of the definitions discover_factors
\* registers
FactorConfig ==
    [f1 |-> [compute_mode |-> "incremental", lookback_days |-> 1,
             preprocess |-> <<>>],
     f2 |-> [compute_mode |-> "full", lookback_days |-> 2,
             preprocess |-> [adjust_price |-> "none",
                             filter_st |-> "False"]]]

FactorIds == DOMAIN FactorConfig

\* registry.get_factor
get_factor(factor_id) ==
    IF factor_id \in DOMAIN registry THEN registry[factor_id] ELSE None

\* ProductionEngine.DEFAULT_PREPROCESS, each value as its text
DEFAULT_PREPROCESS ==
    [adjust_price |-> "forward", filter_st |-> "True",
     filter_new_stock |-> "True", new_stock_days |-> "60",
     handle_suspension |-> "True", mark_limit |-> "True"]

\* mutant of dict_merge: the keys of base win
dict_merge_base_wins(base, over) ==
    [k \in DOMAIN base \cup DOMAIN over |->
        IF k \in DOMAIN base THEN base[k] ELSE over[k]]

\* {**base, **over}
dict_merge(base, over) ==
    [k \in DOMAIN base \cup DOMAIN over |->
        IF k \in DOMAIN over THEN over[k] ELSE base[k]]

\* ProductionEngine._get_factor_preprocess: params["preprocess"] of the
\* factor_metadata row, {} without one
get_factor_preprocess(factor_id) == factor_params[factor_id]

\* mutant of merged_preprocess: the options of the factor code are written
merged_preprocess_from_code(definition, db_pp) == definition.preprocess

\* ProductionEngine._update_metadata lines 493-496: params["preprocess"]
\* of the row written; merged_params starts as the params of the factor
\* code and takes the options read from factor_metadata when there are any
merged_preprocess(definition, db_pp) ==
    IF db_pp # <<>> THEN db_pp ELSE definition.preprocess

\* run_task lines 76-78: the preprocess options in effect
effective_opts(definition, db_pp, preprocess) ==
    dict_merge(dict_merge(dict_merge(DEFAULT_PREPROCESS,
                                     definition.preprocess),
                          db_pp),
               IF preprocess = None THEN <<>> ELSE preprocess)

\* "20100101", where a full computation without start_date starts
FullStart == Ymd(FirstDay + 1)

\* "ORDER BY cal_date" of the days S
RECURSIVE SortedYmd(_)
SortedYmd(S) ==
    IF S = {} THEN <<>>
    ELSE LET first == CHOOSE d \in S : \A e \in S : d <= e
         IN <<Ymd(first)>> \o SortedYmd(S \ {first})

\* TradingCalendar._load: the open days of trade_cal in order; the list
\* stays empty when the table is empty or the query raised
load_trading_days(cal, query_ok) ==
    IF query_ok THEN SortedYmd(cal) ELSE <<>>

\* int(n * 1.5)
int_times_1_5(n) ==
    IF n < 0 THEN 0 - ((3 * (0 - n)) \div 2) ELSE (3 * n) \div 2

\* bisect.bisect_left(days, date_str), an index from 0
bisect_left(days, date_str) ==
    Cardinality({i \in 1..Len(days) : str_gt(date_str, days[i])})

\* TradingCalendar.offset_trading_days
offset_trading_days(date_str, n) ==
    IF trading_days = <<>> THEN add_days(date_str, int_times_1_5(n))
    ELSE LET len == Len(trading_days)
             at == bisect_left(trading_days, date_str)
             idx == IF (at >= len \/ trading_days[at + 1] # date_str) /\ n < 0
                    THEN at - 1 ELSE at
             target == idx + n
             clamped == IF target < 0 THEN 0
                        ELSE IF target > len - 1 THEN len - 1 ELSE target
         IN trading_days[clamped + 1]

\* ProductionEngine._get_last_computed_date
get_last_computed_date(factor_id) == factor_metadata[factor_id]

\* what _resolve_dates returns when there is nothing to compute
Unresolved == [calc_start |-> None, calc_end |-> None, data_start |-> None]

\* ProductionEngine._resolve_dates lines 182-189: full mode
resolve_full(start_date, end_date, definition) ==
    LET lookback == definition.lookback_days
        calc_start == IF start_date # None THEN start_date ELSE FullStart
    IN [calc_start |-> calc_start,
        calc_end |-> IF end_date # None THEN end_date ELSE date_today,
        data_start |-> IF start_date # None
                       THEN offset_trading_days(calc_start, 0 - lookback)
                       ELSE calc_start]

\* ProductionEngine._resolve_dates lines 191-214: incremental mode
resolve_incremental(factor_id, target_date, start_date, end_date, definition) ==
    LET lookback == definition.lookback_days
        last_date == get_last_computed_date(factor_id)
        calc_start == IF target_date # None THEN target_date
                      ELSE IF start_date # None THEN start_date
                      ELSE IF last_date # None
                      THEN add_days(last_date, 1)
                      ELSE date_today
        calc_end == IF target_date # None
                    THEN IF end_date # None THEN end_date
                         ELSE target_date
                    ELSE IF start_date # None
                    THEN IF end_date # None THEN end_date
                         ELSE date_today
                    ELSE date_today
    IN IF str_gt(calc_start, calc_end) THEN Unresolved
       ELSE [calc_start |-> calc_start, calc_end |-> calc_end,
             data_start |-> offset_trading_days(calc_start,
                                                0 - lookback)]

\* mutant of resolve_dates: the range of the incremental branch in either
\* mode, so that target_date decides it
resolve_dates_by_target(factor_id, compute_mode, target_date, start_date, end_date, definition) ==
    resolve_incremental(factor_id, target_date, start_date, end_date,
                        definition)

\* ProductionEngine._resolve_dates
resolve_dates(factor_id, compute_mode, target_date, start_date, end_date, definition) ==
    IF compute_mode = "full"
    THEN resolve_full(start_date, end_date, definition)
    ELSE resolve_incremental(factor_id, target_date, start_date, end_date,
                             definition)

\* _load_table_data: the days of the source rows with
\* trade_date >= start_date AND trade_date <= end_date; the source table
\* holds rows for the open days
load_data(start_date, end_date) ==
    {d \in trade_cal : start_date.day <= d /\ d <= end_date.day}

\* what loading the data, computing the factor and storing the result may
\* do: rows, no source rows, an empty factor result, an exception of the
\* load or of the compute function, an exception of the store write
FactorOutcomes == {"rows", "no data", "empty", "raise", "store raise"}

\* run_task lines 69-163: the frame of the call at its end (mode "": none
\* given).  ret is what
\* the caller gets ("raise": an exception leaves run_task), record the
\* final status of its factor_task_run row, empty_result whether the
\* compute function returned None or an empty frame, stored the days of the
\* rows upserted into factor_values, metadata whether factor_metadata is
\* written, error what raised inside the try ("compute": _load_data or the
\* compute function, "store": the upsert, which raises on a frame with
\* rows only and leaves no row behind)
run_task_frame(factor_id, target_date, start_date, end_date, mode, preprocess, outcome) ==
    LET definition == get_factor(factor_id)
        call == [factor_id |-> factor_id, target_date |-> target_date,
                 start_date |-> start_date, end_date |-> end_date,
                 preprocess |-> preprocess, factor_pp |-> <<>>,
                 db_pp |-> <<>>, opts |-> <<>>, params |-> <<>>,
                 compute_mode |-> "", lookback |-> 0,
                 dates |-> Unresolved, loaded |-> {}, computed |-> FALSE,
                 empty_result |-> FALSE, error |-> "",
                 stored |-> {}, metadata |-> "none", run_id |-> "none",
                 record |-> "none", ret |-> "false"]
    IN IF definition = None THEN call
       ELSE
       LET compute_mode == IF mode # "" THEN mode
                           ELSE definition.compute_mode
           run_id == audit_except(db_raises("factor_task_run"))
           dates == resolve_dates(factor_id, compute_mode, target_date,
                                  start_date, end_date, definition)
           df == IF dates = Unresolved \/ outcome = "no data" THEN {}
                 ELSE load_data(dates.data_start, dates.calc_end)
           result == IF outcome \in {"rows", "store raise"} THEN df ELSE {}
           filtered == {d \in result : /\ d >= dates.calc_start.day
                                       /\ d <= dates.calc_end.day}
           metadata == audit_except(db_raises("factor_metadata"))
           db_pp == get_factor_preprocess(factor_id)
           opts == effective_opts(definition, db_pp, preprocess)
           entered == [call EXCEPT !.opts = opts,
                                   !.factor_pp = definition.preprocess,
                                   !.db_pp = db_pp,
                                   !.compute_mode = compute_mode,
                                   !.lookback = definition.lookback_days,
                                   !.run_id = run_id]
           resolved == [entered EXCEPT !.dates = dates, !.loaded = df]
       IN IF run_id = "raised" THEN [entered EXCEPT !.ret = "raise"]
          ELSE IF dates = Unresolved
          THEN [resolved EXCEPT !.record = "success", !.ret = "true"]
          ELSE IF df = {}
          THEN [resolved EXCEPT !.record = "success"]
          ELSE IF outcome = "raise"
          THEN [resolved EXCEPT !.computed = TRUE, !.error = "compute",
                                !.record = "failed"]
          ELSE IF result = {}
          THEN [resolved EXCEPT !.computed = TRUE, !.empty_result = TRUE,
                                !.record = "success"]
          ELSE IF outcome = "store raise" /\ filtered # {}
          THEN [resolved EXCEPT !.computed = TRUE, !.error = "store",
                                !.record = "failed"]
          ELSE IF metadata = "raised"
          THEN [resolved EXCEPT !.computed = TRUE, !.stored = filtered,
                                !.metadata = metadata, !.record = "failed"]
          ELSE [resolved EXCEPT !.computed = TRUE, !.stored = filtered,
                                !.metadata = metadata,
                                !.params = merged_preprocess(definition,
                                                             db_pp),
                                !.record = "success", !.ret = "true"]

\* the value the compute function of factor_id gives (code, day): the same
\* function of the same source row on every call
factor_func(factor_id, ts_code, d) == IF factor_id = "f1" THEN d ELSE d + 1

\* _save_to_unified_table lines 450-461: the frame written for the result
\* rows of the days stored
write_df(factor_id, stored) ==
    {[ts_code |-> c, trade_date |-> Ymd(d), factor_id |-> factor_id,
      factor_value |-> factor_func(factor_id, c, d)] :
         c \in Codes, d \in stored}

\* mutant of upsert_on: a plain INSERT
upsert_on_insert_only(rows, df, key_columns) ==
    rows (+) SetToBag(df)

\* repository.upsert with its key_columns (INSERT ... ON CONFLICT
\* (key_columns) DO UPDATE SET the other columns; nothing for an empty
\* frame): a stored row whose key is the key of a row of df takes the
\* values of that row, the other rows of df are added
upsert_on(rows, df, key_columns) ==
    LET same_key(r, n) == \A k \in key_columns : r[k] = n[k]
        kept == {r \in BagToSet(rows) : \A n \in df : ~same_key(r, n)}
        updated == {n \in df : \E r \in BagToSet(rows) : same_key(r, n)}
        inserted == df \ updated
        updated_bag == [n \in updated |->
                           BagCardinality([r \in {x \in BagToSet(rows) :
                                                     same_key(x, n)}
                                              |-> rows[r]])]
    IN IF df = {} THEN rows
       ELSE [r \in kept |-> rows[r]] (+) updated_bag (+) SetToBag(inserted)

\* mutant of last_computed_after: the date is written once the range is
\* resolved, before the data is loaded
last_computed_on_resolve(factor_id, frame) ==
    IF frame.run_id # "none" /\ frame.dates # Unresolved
    THEN [factor_metadata EXCEPT ![factor_id] = frame.dates.calc_end]
    ELSE factor_metadata

\* run_task line 153 and _update_metadata line 506: last_computed_date of
\* the factor_metadata rows after the call
last_computed_after(factor_id, frame) ==
    IF frame.metadata = "written"
    THEN [factor_metadata EXCEPT ![factor_id] = frame.dates.calc_end]
    ELSE factor_metadata

\* _update_metadata line 505: params["preprocess"] of the factor_metadata
\* rows after the call
params_after(factor_id, frame) ==
    IF frame.metadata = "written"
    THEN [factor_params EXCEPT ![factor_id] = frame.params]
    ELSE factor_params

\* registry.factor, the decorator, run when the process starts on a new
\* version of the factor code: the definition of factor_id is registered
\* with the params["preprocess"] of that version
factor(factor_id, preprocess) ==
    /\ factor_id \in DOMAIN registry
    /\ registry[factor_id].preprocess # preprocess
    /\ registry' = [registry EXCEPT ![factor_id].preprocess = preprocess]
    /\ UNCHANGED <<db_failing, trade_cal, trading_days, factor_metadata,
                   factor_params, factor_values, factor_task_run,
                   factor_runs, factor_count>>
    /\ UNCHANGED flowVars
    /\ UNCHANGED configVars
    /\ UNCHANGED dagVars
    /\ UNCHANGED syncVars
    /\ UNCHANGED apiVars

\* ProductionEngine.run_task
run_task(factor_id, target_date, start_date, end_date, mode, preprocess, outcome) ==
    /\ factor_count' = factor_count + 1
    /\ LET frame == run_task_frame(factor_id, target_date, start_date,
                                   end_date, mode, preprocess, outcome)
       IN /\ factor_runs' = Append(factor_runs, frame)
          /\ factor_values' =
                 upsert_on(factor_values, write_df(factor_id, frame.stored),
                           {"ts_code", "trade_date", "factor_id"})
          /\ factor_metadata' = last_computed_after(factor_id, frame)
          /\ factor_params' = params_after(factor_id, frame)
          /\ factor_task_run' =
                 IF frame.run_id = "written"
                 THEN Append(factor_task_run,
                             [factor_id |-> factor_id,
                              mode |-> frame.compute_mode,
                              status |-> frame.record,
                              rows_affected |-> Cardinality(frame.stored)])
                 ELSE factor_task_run
    /\ UNCHANGED <<db_failing, registry, trade_cal, trading_days>>
    /\ UNCHANGED flowVars
    /\ UNCHANGED configVars
    /\ UNCHANGED dagVars
    /\ UNCHANGED syncVars
    /\ UNCHANGED apiVars

\* ------------------------------------------------------------------------
\* FlowParser._topo_sort (engine/parser/flow_parser.py)
\* ------------------------------------------------------------------------
\* mutant of flow_in_degree: one per target, however many edges enter it
flow_in_degree_unweighted(nodes, edges) ==
    [n \in Range(nodes) |->
        IF \E i \in 1..Len(edges) : edges[i][2] = n THEN 1 ELSE 0]

\* lines 197-201: in_degree, one per edge entering the node
flow_in_degree(nodes, edges) ==
    [n \in Range(nodes) |->
        Cardinality({i \in 1..Len(edges) : edges[i][2] = n})]

\* lines 198-200: adj, the targets of the edges leaving each node, in edge
\* order
RECURSIVE targets_of(_, _)
targets_of(edges, n) ==
    IF edges = <<>> THEN <<>>
    ELSE (IF Head(edges)[1] = n THEN <<Head(edges)[2]>> ELSE <<>>)
             \o targets_of(Tail(edges), n)

\* lines 207-210: the loop over the neighbors of the node taken
RECURSIVE relax_neighbors(_, _, _)
relax_neighbors(neighbors, deg, queue) ==
    IF neighbors = <<>> THEN [deg |-> deg, queue |-> queue]
    ELSE LET neighbor == Head(neighbors)
             deg2 == [deg EXCEPT ![neighbor] = @ - 1]
         IN relax_neighbors(Tail(neighbors), deg2,
                            IF deg2[neighbor] = 0 THEN Append(queue, neighbor)
                            ELSE queue)

\* lines 204-210: the while loop
RECURSIVE kahn_loop(_, _, _, _)
kahn_loop(edges, deg, queue, order) ==
    IF queue = <<>> THEN order
    ELSE LET node == Head(queue)
             r == relax_neighbors(targets_of(edges, node), deg, Tail(queue))
         IN kahn_loop(edges, r.deg, r.queue, Append(order, node))

\* the nodes of s with in-degree 0, in order (line 203)
RECURSIVE zero_degree(_, _)
zero_degree(s, deg) ==
    IF s = <<>> THEN <<>>
    ELSE (IF deg[Head(s)] = 0 THEN <<Head(s)>> ELSE <<>>)
             \o zero_degree(Tail(s), deg)

\* FlowParser._topo_sort
topo_sort(nodes, edges) ==
    LET deg == flow_in_degree(nodes, edges)
    IN kahn_loop(edges, deg, zero_degree(nodes, deg), <<>>)

\* a _topo_sort call on the graph held
TopoSort ==
    /\ ~flow_order.done
    /\ flow_order' = [done |-> TRUE,
                      order |-> topo_sort(flow_graph.nodes, flow_graph.edges)]
    /\ UNCHANGED flow_graph
    /\ UNCHANGED configVars
    /\ UNCHANGED dagVars
    /\ UNCHANGED syncVars
    /\ UNCHANGED apiVars
    /\ UNCHANGED factorVars

\* ------------------------------------------------------------------------
\* DAGConfigManager: add_dag, update_dag, delete_dag (dag_executor.py)
\* ------------------------------------------------------------------------
\* update_dag lines 95-97: the index of the first DAG with dag_id, 0
\* without one
RECURSIVE IndexOfDag(_, _, _)
IndexOfDag(ds, dag_id, i) ==
    IF i > Len(ds) THEN 0
    ELSE IF ds[i].dag_id = dag_id THEN i
    ELSE IndexOfDag(ds, dag_id, i + 1)

\* what the calls leave alone
ConfigCallFrame ==
    /\ UNCHANGED <<clock, requests, req, response, pc, dag_run, layers,
                   layer_idx, futs, calls, dag_run_log, dag_task_log>>
    /\ UNCHANGED syncVars
    /\ UNCHANGED apiVars
    /\ UNCHANGED factorVars
    /\ UNCHANGED flowVars

\* DAGConfigManager.add_dag; a dag_id of "" stands for an empty or absent
\* dag_id
add_dag(dag_config) ==
    LET dag_id == dag_config.dag_id
        raised == dag_id = "" \/ get_dag(dag_id) # None
    IN /\ dags' = IF raised THEN dags ELSE Append(dags, dag_config)
       /\ config_call' = [op |-> "add_dag", dag_id |-> dag_id,
                          raised |-> raised]
       /\ ConfigCallFrame

\* DAGConfigManager.update_dag
update_dag(dag_id, dag_config) ==
    LET i == IndexOfDag(dags, dag_id, 1)
    IN /\ dags' = IF i = 0 THEN dags
                  ELSE [dags EXCEPT ![i] = [dag_config EXCEPT
                                               !.dag_id = dag_id]]
       /\ config_call' = [op |-> "update_dag", dag_id |-> dag_id,
                          raised |-> i = 0]
       /\ ConfigCallFrame

\* DAGConfigManager.delete_dag: the list is replaced by the filtered one
\* before the lengths are compared
delete_dag(dag_id) ==
    LET kept == SelectSeq(dags, LAMBDA d : d.dag_id # dag_id)
    IN /\ dags' = kept
       /\ config_call' = [op |-> "delete_dag", dag_id |-> dag_id,
                          raised |-> Len(kept) = Len(dags)]
       /\ ConfigCallFrame

\* ------------------------------------------------------------------------
\* Specifications
\* ------------------------------------------------------------------------
vars == <<dagVars, syncVars, apiVars, factorVars, flowVars, configVars>>

\* no flow graph handed to a FlowParser
InitFlowIdle ==
    /\ flow_graph = [nodes |-> <<>>, edges |-> <<>>]
    /\ flow_order = [done |-> FALSE, order |-> <<>>]

\* the process after start-up, serving DAG d1 with task list task_list
InitExecutor ==
    /\ clock = 0
    /\ requests = 0
    /\ req = Idle
    /\ response = None
    /\ pc = "idle"
    /\ dag_run = None
    /\ layers = <<>>
    /\ layer_idx = 1
    /\ futs = NoFuts
    /\ calls = EmptyBag
    /\ dag_run_log = <<>>
    /\ dag_task_log = EmptyBag

InitDag(task_list) ==
    /\ dags = <<[dag_id |-> "d1", tasks |-> task_list]>>
    /\ InitExecutor

\* target_date values of a single-day request
RequestDates == {None, BadDate, Ymd(MaxDay), YmdDash(MaxDay)}

\* RefactoredSyncEngine.__init__: the limiter and the retry policy of
\* the client, called by the threads of pool; the clock is far from 0.0
InitApi(pool, policy) ==
    /\ time_now = call_interval
    /\ last_call_time = 0
    /\ retry_policy = policy
    /\ workers = [th \in pool |-> IdleWorker]
    /\ api_log = <<>>
    /\ api_count = 0

DefaultPolicy == [max_attempts |-> retry_times, base_delay |-> retry_delay]

InitApiIdle == InitApi({}, DefaultPolicy)

\* ProductionEngine.__init__ on a database whose open days are cal and
\* whose last_computed_date of f1 is last_date; failing: the tables whose
\* writes raise; overrides: the preprocess options kept in factor_metadata
InitFactor(cal, query_ok, last_date, failing, overrides) ==
    /\ db_failing = failing
    /\ registry = FactorConfig
    /\ trade_cal = cal
    /\ trading_days = load_trading_days(cal, query_ok)
    /\ factor_metadata = [f \in FactorIds |-> IF f = "f1" THEN last_date
                                              ELSE None]
    /\ factor_params = overrides
    /\ factor_values = EmptyBag
    /\ factor_task_run = <<>>
    /\ factor_runs = <<>>
    /\ factor_count = 0

\* factor_metadata without preprocess options
NoOverrides == [f \in FactorIds |-> <<>>]

InitFactorIdle == InitFactor({}, TRUE, None, {}, NoOverrides)

\* the sync side after start-up, on an empty database
InitSync ==
    /\ today = FirstDay
    /\ sync_log = [t \in SyncTaskIds |-> None]
    /\ sync_log_history = <<>>
    /\ sync_table = EmptyBag
    /\ sync_calls = <<>>
    /\ sync_frame = SyncIdle
    /\ sync_result = None
    /\ sync_count = 0

Init == config_call = None /\ InitFlowIdle /\ InitSync /\ InitApiIdle /\ InitFactorIdle /\ \E task_list \in TaskLists : InitDag(task_list)

RunTasks ==
    \E t \in AllTaskIds :
        \/ TaskStart(t)
        \/ TaskDispatch(t)
        \/ \E outcome \in Outcomes : TaskReturn(t, outcome)

\* the first request after start-up is a single-day run_dag request
FirstRequest ==
    /\ requests = 0
    /\ \E dag_id \in DagIds, target_date \in RequestDates :
          RunDagSingle(dag_id, target_date, "today")

Next ==
    \/ FirstRequest
    \/ LayerSubmit
    \/ RunTasks
    \/ PoolJoin
    \/ ExecuteDagFinish

Spec == Init /\ [][Next]_vars

\* start_date and end_date values of a backfill request: days 3 and 4 are
\* a Thursday and a Friday, day 7 the Monday after
BackfillDates == {Ymd(FirstDay), YmdDash(FirstDay + 1), Ymd(MaxDay), BadDate}

\* the process serving backfill requests for a DAG of at most one task
InitBackfill ==
    /\ InitSync
    /\ InitApiIdle
    /\ InitFactorIdle
    /\ InitFlowIdle
    /\ config_call = None
    /\ \E task_list \in {tl \in TaskLists : DOMAIN tl \subseteq {"a"}} :
           InitDag(task_list)

NextBackfill ==
    \/ /\ requests < MaxRequests
       /\ \E dag_id \in DagIds, start_date \in BackfillDates,
             end_date \in BackfillDates :
             RunDagBackfill(dag_id, start_date, end_date)
    \/ ExecuteDagNext
    \/ LayerSubmit
    \/ RunTasks
    \/ PoolJoin
    \/ ExecuteDagFinish
    \/ Tick

SpecBackfill == InitBackfill /\ [][NextBackfill]_vars

\* target_date and end_date values of an execute_task call
SyncDates ==
    {None, Ymd(FirstDay), Ymd(FirstDay + 1), Ymd(FirstDay + 2),
     YmdDash(FirstDay + 1)}

\* the sync executor alone: MaxSyncCalls execute_task calls, one at a time
InitSyncOnly == config_call = None /\ InitFlowIdle /\ InitSync /\ InitApiIdle /\ InitFactorIdle /\ InitDag(<<>>)

NextSync ==
    \/ /\ sync_count < MaxSyncCalls
       /\ \E task_id \in SyncTaskIds, target_date \in SyncDates,
             end_date \in SyncDates, table_ok \in BOOLEAN :
             execute_task(task_id, target_date, end_date, table_ok)
    \/ \E outcome \in ApiOutcomes : execute_full_sync(outcome)
    \/ \E outcome \in ApiOutcomes : execute_incremental_sync(outcome)
    \/ NextDay

SpecSync == InitSyncOnly /\ [][NextSync]_vars

\* one execute_task call on a database that already holds watermarks
InitSyncOnce ==
    /\ InitDag(<<>>)
    /\ InitFlowIdle
    /\ config_call = None
    /\ InitApiIdle
    /\ InitFactorIdle
    /\ today \in Days
    /\ \E d1 \in {None} \cup {Ymd(d) : d \in Days},
          d2 \in {None} \cup {Ymd(d) : d \in Days} :
          sync_log = [t \in SyncTaskIds |->
                         IF t = "s1" THEN d1 ELSE IF t = "s2" THEN d2 ELSE None]
    /\ sync_log_history = <<>>
    /\ sync_table = EmptyBag
    /\ sync_calls = <<>>
    /\ sync_frame = SyncIdle
    /\ sync_result = None
    /\ sync_count = 0

NextSyncOnce ==
    \/ /\ sync_count = 0
       /\ \E task_id \in SyncTaskIds, target_date \in SyncDates,
             end_date \in SyncDates, table_ok \in BOOLEAN :
             execute_task(task_id, target_date, end_date, table_ok)
    \/ \E outcome \in ApiOutcomes : execute_full_sync(outcome)
    \/ \E outcome \in ApiOutcomes : execute_incremental_sync(outcome)
    \/ NextDay

SpecSyncOnce == InitSyncOnce /\ [][NextSyncOnce]_vars

\* the client called by one thread, under every retry policy up to the
\* default one
InitApiSingle ==
    /\ InitDag(<<>>)
    /\ InitFlowIdle
    /\ config_call = None
    /\ InitSync
    /\ InitFactorIdle
    /\ \E max_attempts \in 1..retry_times, base_delay \in 1..retry_delay :
           InitApi({"w1"}, [max_attempts |-> max_attempts,
                            base_delay |-> base_delay])

\* the client shared by the threads of the worker pool
InitApiPool ==
    /\ InitDag(<<>>)
    /\ InitFlowIdle
    /\ config_call = None
    /\ InitSync
    /\ InitFactorIdle
    /\ InitApi(Threads, [max_attempts |-> 1, base_delay |-> retry_delay])

NextApi ==
    \/ /\ api_count < MaxCallApi
       /\ \E th \in DOMAIN workers : CallApi(th)
    \/ \E th \in DOMAIN workers : LimiterRead(th)
    \/ \E th \in DOMAIN workers : Wake(th)
    \/ \E th \in DOMAIN workers, outcome \in ApiOutcomes : ApiCall(th, outcome)
    \/ TimePasses

SpecApi == InitApiSingle /\ [][NextApi]_vars

SpecApiPool == InitApiPool /\ [][NextApi]_vars

\* the dates a run_task call is given
FactorDates == {None, Ymd(FirstDay + 1), Ymd(MaxDay - 1)}

\* one run_task call on any trade calendar, loaded or not, on one of the
\* last two days
InitFactorOnly ==
    /\ InitDag(<<>>)
    /\ InitFlowIdle
    /\ config_call = None
    /\ InitApiIdle
    /\ today \in {MaxDay - 1, MaxDay}
    /\ sync_log = [t \in SyncTaskIds |-> None]
    /\ sync_log_history = <<>>
    /\ sync_table = EmptyBag
    /\ sync_calls = <<>>
    /\ sync_frame = SyncIdle
    /\ sync_result = None
    /\ sync_count = 0
    /\ \E cal \in SUBSET Days, query_ok \in BOOLEAN,
          last_date \in {None, Ymd(FirstDay + 1)} :
           InitFactor(cal, query_ok, last_date, {}, NoOverrides)

NextFactor ==
    /\ factor_count = 0
    /\ \E factor_id \in FactorIds \cup {"fx"},
          target_date \in FactorDates, start_date \in FactorDates,
          end_date \in FactorDates, mode \in {"", "incremental", "full"},
          outcome \in FactorOutcomes :
           run_task(factor_id, target_date, start_date, end_date, mode,
                    None, outcome)

SpecFactor == InitFactorOnly /\ [][NextFactor]_vars

\* two run_task calls with mode = "full" on one day, on any trade calendar
InitFactorTwice ==
    /\ InitDag(<<>>)
    /\ InitFlowIdle
    /\ config_call = None
    /\ InitApiIdle
    /\ today = MaxDay
    /\ sync_log = [t \in SyncTaskIds |-> None]
    /\ sync_log_history = <<>>
    /\ sync_table = EmptyBag
    /\ sync_calls = <<>>
    /\ sync_frame = SyncIdle
    /\ sync_result = None
    /\ sync_count = 0
    /\ \E cal \in SUBSET Days, query_ok \in BOOLEAN :
           InitFactor(cal, query_ok, None, {}, NoOverrides)

NextFactorTwice ==
    /\ factor_count < 2
    /\ \E factor_id \in FactorIds, start_date \in FactorDates,
          end_date \in FactorDates, outcome \in FactorOutcomes :
           run_task(factor_id, None, start_date, end_date, "full", None,
                    outcome)

SpecFactorTwice == InitFactorTwice /\ [][NextFactorTwice]_vars

\* the DAGs of WideIds whose tasks, of any known type, all lie in one
\* layer
WideTaskLists ==
    {[t \in WideIds |-> [task_id |-> t, task_type |-> ty[t],
                         depends_on |-> <<>>]] :
        ty \in [WideIds -> {"sync", "production"}]}

\* the process serving a DAG with more runnable tasks in a layer than the
\* pool has workers
InitPool ==
    /\ InitFlowIdle
    /\ config_call = None
    /\ InitSync
    /\ InitApiIdle
    /\ InitFactorIdle
    /\ \E task_list \in WideTaskLists : InitDag(task_list)

\* the pool threads take the queued tasks and run them, each executor
\* call returns or raises, and execute_dag goes on when it can
SpecPool == InitPool /\ [][Next]_vars /\ WF_vars(Next)

\* build_dag and topological_sort on the DAGs of sync tasks with one
\* depends_on entry more than TaskLists allows: the request is served up to
\* the layers
InitSort ==
    /\ InitFlowIdle
    /\ config_call = None
    /\ InitSync
    /\ InitApiIdle
    /\ InitFactorIdle
    /\ \E task_list \in TaskListsWith({"sync"}, MaxEdges + 1) :
           InitDag(task_list)

NextSort == FirstRequest

SpecSort == InitSort /\ [][NextSort]_vars

\* the node ids of the flow graphs
FlowNodeOrder == <<"1", "2", "3", "4">>

\* the node dicts: the first ids in either insertion order
FlowNodeLists ==
    UNION {{SubSeq(FlowNodeOrder, 1, n),
            [i \in 1..n |-> FlowNodeOrder[n + 1 - i]]} :
              n \in 1..Len(FlowNodeOrder)}

\* the edge lists over the nodes: up to as many edges as there are node
\* ids, each between two different listed nodes, repeated or not
FlowEdgeLists(nodes) ==
    SeqsUpTo({e \in Range(nodes) \X Range(nodes) : e[1] # e[2]},
             Len(FlowNodeOrder))

\* a FlowParser given any such graph, cyclic or not
InitFlow ==
    /\ InitDag(<<>>)
    /\ InitSync
    /\ InitApiIdle
    /\ InitFactorIdle
    /\ config_call = None
    /\ flow_order = [done |-> FALSE, order |-> <<>>]
    /\ \E nodes \in FlowNodeLists :
           \E edges \in FlowEdgeLists(nodes) :
               flow_graph = [nodes |-> nodes, edges |-> edges]

NextFlow == TopoSort

SpecFlow == InitFlow /\ [][NextFlow]_vars

\* the values a preprocess option is given by a level other than the
\* global defaults
OptionValues ==
    [adjust_price |-> {"backward", "none"}, filter_st |-> {"True", "False"}]

\* the preprocess dicts of a level: any of the keys of OptionValues, each
\* with one of its values
OptionMaps ==
    UNION {{m \in [D -> UNION {OptionValues[k] : k \in DOMAIN OptionValues}] :
                \A k \in D : m[k] \in OptionValues[k]} :
              D \in SUBSET DOMAIN OptionValues}

\* one run_task call on a database holding any preprocess overrides, with
\* any explicit preprocess argument or none
InitPreprocess ==
    /\ InitDag(<<>>)
    /\ InitFlowIdle
    /\ config_call = None
    /\ InitApiIdle
    /\ today = MaxDay
    /\ sync_log = [t \in SyncTaskIds |-> None]
    /\ sync_log_history = <<>>
    /\ sync_table = EmptyBag
    /\ sync_calls = <<>>
    /\ sync_frame = SyncIdle
    /\ sync_result = None
    /\ sync_count = 0
    /\ \E overrides \in [FactorIds -> OptionMaps] :
           InitFactor(Days, TRUE, None, {}, overrides)

NextPreprocess ==
    /\ factor_count = 0
    /\ \E factor_id \in FactorIds \cup {"fx"},
          preprocess \in {None} \cup OptionMaps,
          outcome \in FactorOutcomes :
           run_task(factor_id, Ymd(MaxDay - 1), None, None, "", preprocess,
                    outcome)

SpecPreprocess == InitPreprocess /\ [][NextPreprocess]_vars

\* the audit tables of the DAG executor, of the sync engine and of the
\* production engine
DagAuditTables == {"dag_run_log", "dag_task_log"}

SyncAuditTables == {"sync_log"}

FactorAuditTables == {"factor_task_run", "factor_metadata"}

\* a database some of whose audit tables reject every write, under one
\* of the three executors: a run_dag request on any DAG, an execute_task
\* call, a run_task call on a loaded calendar
InitAudit ==
    /\ InitApiIdle
    /\ \/ /\ InitSync
          /\ InitFlowIdle
          /\ config_call = None
          /\ \E task_list \in TaskLists : InitDag(task_list)
          /\ \E failing \in SUBSET DagAuditTables :
                 InitFactor({}, TRUE, None, failing, NoOverrides)
       \/ /\ InitSync
          /\ InitDag(<<>>)
          /\ InitFlowIdle
          /\ config_call = None
          /\ InitFactor({}, TRUE, None, SyncAuditTables, NoOverrides)
       \/ /\ InitSync
          /\ InitDag(<<>>)
          /\ InitFlowIdle
          /\ config_call = None
          /\ \E failing \in (SUBSET FactorAuditTables) \ {{}},
                last_date \in {None, Ymd(FirstDay + 1)} :
                 InitFactor(Days, TRUE, last_date, failing, NoOverrides)

NextAudit ==
    \/ /\ db_failing \subseteq DagAuditTables
       /\ Next
    \/ /\ db_failing = SyncAuditTables
       /\ NextSyncOnce
    \/ /\ db_failing # {}
       /\ db_failing \subseteq FactorAuditTables
       /\ NextFactor

SpecAudit == InitAudit /\ [][NextAudit]_vars

\* the sync engine at rest on one of the last two days
InitSyncRest ==
    /\ today \in {MaxDay - 1, MaxDay}
    /\ sync_log = [t \in SyncTaskIds |-> None]
    /\ sync_log_history = <<>>
    /\ sync_table = EmptyBag
    /\ sync_calls = <<>>
    /\ sync_frame = SyncIdle
    /\ sync_result = None
    /\ sync_count = 0

\* up to two run_task calls in incremental mode without target_date and
\* without start_date, on any trade calendar, with last_computed_date of
\* f1 absent or any day; a day may pass between the calls
InitIncremental ==
    /\ InitDag(<<>>)
    /\ InitFlowIdle
    /\ config_call = None
    /\ InitApiIdle
    /\ InitSyncRest
    /\ \E cal \in SUBSET Days, last_date \in {None} \cup {Ymd(d) : d \in Days} :
           InitFactor(cal, TRUE, last_date, {}, NoOverrides)

NextIncremental ==
    \/ /\ factor_count < 2
       /\ \E factor_id \in FactorIds, end_date \in {None, Ymd(MaxDay - 1)},
             outcome \in FactorOutcomes :
              run_task(factor_id, None, None, end_date, "incremental", None,
                       outcome)
    \/ /\ factor_count = 1
       /\ NextDay

SpecIncremental == InitIncremental /\ [][NextIncremental]_vars

\* the params["preprocess"] a version of the factor code may define
CodeOptionMaps ==
    {<<>>, [adjust_price |-> "backward"],
     [adjust_price |-> "none", filter_st |-> "False"]}

\* up to two run_task calls for the day before today, with or without a
\* preprocess argument, and redeploys of the factor code between them
NextRedeploy ==
    \/ /\ factor_count < 2
       /\ \E factor_id \in FactorIds,
             preprocess \in {None, [filter_st |-> "True"]},
             outcome \in {"rows", "empty", "raise"} :
              run_task(factor_id, Ymd(MaxDay - 1), None, None, "", preprocess,
                       outcome)
    \/ /\ factor_count = 1
       /\ \E factor_id \in FactorIds, preprocess \in CodeOptionMaps :
              factor(factor_id, preprocess)

\* the preprocess options a user may have put into factor_metadata
UserOptionMaps ==
    {<<>>, [filter_st |-> "True"],
     [adjust_price |-> "backward", filter_st |-> "False"]}

\* on a database holding any of these options in factor_metadata
InitOverride ==
    /\ InitDag(<<>>)
    /\ InitFlowIdle
    /\ config_call = None
    /\ InitApiIdle
    /\ InitSyncRest
    /\ \E overrides \in [FactorIds -> UserOptionMaps] :
           InitFactor(Days, TRUE, None, {}, overrides)

SpecOverride == InitOverride /\ [][NextRedeploy]_vars

\* on a database whose factor_metadata holds no preprocess options
InitCodeDefaults ==
    /\ InitDag(<<>>)
    /\ InitFlowIdle
    /\ config_call = None
    /\ InitApiIdle
    /\ InitSyncRest
    /\ InitFactor(Days, TRUE, None, {}, NoOverrides)

SpecCodeDefaults == InitCodeDefaults /\ [][NextRedeploy]_vars

\* the dag_ids of the stored DAGs and of the calls
ConfigDagIds == DagIds \cup {"d3"}

\* the DAG configs handed to add_dag and update_dag: any of these dag_ids
\* or an empty one, no task or one task
ConfigDags ==
    {[dag_id |-> i, tasks |-> tl] :
        i \in ConfigDagIds \cup {""},
        tl \in {t \in TaskListsWith({"sync"}, 0) : DOMAIN t \subseteq {"a"}}}

\* no two DAGs of the list ds have the same dag_id
DistinctDagIds(ds) ==
    \A i, j \in 1..Len(ds) : ds[i].dag_id = ds[j].dag_id => i = j

\* any sequence of add_dag, update_dag and delete_dag calls on a config
\* file whose DAGs have distinct, non-empty dag_ids
InitConfig ==
    /\ InitExecutor
    /\ InitSync
    /\ InitApiIdle
    /\ InitFactorIdle
    /\ InitFlowIdle
    /\ config_call = None
    /\ dags \in {ds \in SeqsUpTo({c \in ConfigDags : c.dag_id # ""},
                                 Cardinality(ConfigDagIds)) :
                     DistinctDagIds(ds)}

NextConfig ==
    \/ \E dag_config \in ConfigDags : add_dag(dag_config)
    \/ \E dag_id \in ConfigDagIds \cup {""}, dag_config \in ConfigDags :
           update_dag(dag_id, dag_config)
    \/ \E dag_id \in ConfigDagIds \cup {""} : delete_dag(dag_id)

SpecConfig == InitConfig /\ [][NextConfig]_vars

\* up to two run_task calls on one day that name a target_date only, as
\* the DAG executor makes them for a production task, on any trade
\* calendar
InitTargetOnly ==
    /\ InitDag(<<>>)
    /\ InitFlowIdle
    /\ config_call = None
    /\ InitApiIdle
    /\ InitSyncRest
    /\ \E cal \in SUBSET Days : InitFactor(cal, TRUE, None, {}, NoOverrides)

NextTargetOnly ==
    /\ factor_count < 2
    /\ \E factor_id \in FactorIds, target_date \in {Ymd(d) : d \in Days},
          outcome \in FactorOutcomes :
           run_task(factor_id, target_date, None, None, "", None, outcome)

SpecTargetOnly == InitTargetOnly /\ [][NextTargetOnly]_vars

\* ------------------------------------------------------------------------
\* Graph notions the properties are stated with (not taken from the code)
\* ------------------------------------------------------------------------
\* the task list of the DAG the process serves
ServedTasks == dags[1].tasks

\* dependencies of t that are tasks of the DAG
DepsOf(tl, t) == Range(tl[t].depends_on) \cap DOMAIN tl

RECURSIVE Closure(_, _)
Closure(tl, S) ==
    LET next == S \cup UNION {DepsOf(tl, u) : u \in S}
    IN IF next = S THEN S ELSE Closure(tl, next)

\* direct and transitive dependencies of t
TransDeps(tl, t) == Closure(tl, DepsOf(tl, t))

HasCycle(tl) == \E t \in DOMAIN tl : t \in TransDeps(tl, t)

AllDepsKnown(tl) == \A t \in DOMAIN tl : Range(tl[t].depends_on) \subseteq DOMAIN tl

\* a run_dag request for the served DAG has gone into execute_dag
Requested ==
    /\ requests > 0
    /\ ~(response # None /\ response.status = "error"
         /\ response.detail = "not_found")

\* execute_dag raised for the request
Raised == response # None /\ response.status = "error"

\* execute_dag has returned dag_run
Returned == pc = "idle" /\ dag_run # None /\ req = Idle

\* 1-based index of the layer holding t, 0 when no layer does
LayerOf(ls, t) ==
    IF \E i \in 1..Len(ls) : t \in Range(ls[i])
    THEN CHOOSE i \in 1..Len(ls) : t \in Range(ls[i])
    ELSE 0

\* number of executor invocations made for task t
CallsFor(t) ==
    LET hits == {c \in BagToSet(calls) : c.task_id = t}
    IN IF hits = {} THEN 0
       ELSE LET RECURSIVE Sum(_)
                Sum(S) == IF S = {} THEN 0
                          ELSE LET c == CHOOSE x \in S : TRUE
                               IN CopiesIn(c, calls) + Sum(S \ {c})
            IN Sum(hits)

Terminal == {SUCCESS, FAILED, SKIPPED}

\* ------------------------------------------------------------------------
\* Properties
\* ------------------------------------------------------------------------
\* C1: for every acyclic DAG config whose depends_on entries all name tasks
\* of the DAG, build_dag succeeds and the layers of topological_sort hold
\* every task exactly once, each in a strictly later layer than each of
\* its dependencies.
C1_AcyclicBuildsAndSorts ==
    (Requested /\ ~HasCycle(ServedTasks) /\ AllDepsKnown(ServedTasks)) =>
        /\ ~Raised
        /\ dag_run # None
        /\ Len(Flatten(layers)) = Cardinality(DOMAIN ServedTasks)
        /\ Range(Flatten(layers)) = DOMAIN ServedTasks
        /\ \A t \in DOMAIN ServedTasks : \A d \in DepsOf(ServedTasks, t) :
              LayerOf(layers, d) < LayerOf(layers, t)

\* C2: for every DAG config whose dependency graph has a cycle (a
\* self-dependency included) build_dag raises the cycle error; execute_dag
\* then invokes no executor and returns no DAGRun.
C2_CycleRejected ==
    (Requested /\ HasCycle(ServedTasks)) =>
        /\ Raised
        /\ response.detail = "cycle"
        /\ dag_run = None
        /\ calls = EmptyBag

C2_Witness ==
    /\ Requested
    /\ HasCycle(ServedTasks)
    /\ \A t \in DOMAIN ServedTasks : t \notin Range(ServedTasks[t].depends_on)
    /\ Raised

\* C3: in every run, once a task A is failed, every direct or transitive
\* dependent of A is never handed to an executor and is never success; when
\* execute_dag returns it is skipped.
C3_FailureCascades ==
    dag_run # None =>
        \A a, b \in DOMAIN dag_run.tasks :
            (dag_run.tasks[a].status = FAILED /\ a \in TransDeps(dag_run.tasks, b)) =>
                /\ CallsFor(b) = 0
                /\ dag_run.tasks[b].status \in {PENDING, SKIPPED}
                /\ Returned => dag_run.tasks[b].status = SKIPPED

C3_Witness ==
    /\ Returned
    /\ \E a, b \in DOMAIN dag_run.tasks :
          /\ dag_run.tasks[a].status = FAILED
          /\ dag_run.tasks[a].error_message = None
          /\ a \in TransDeps(dag_run.tasks, b)
          /\ a \notin DepsOf(dag_run.tasks, b)
          /\ dag_run.tasks[b].status = SKIPPED

\* C4: when execute_dag returns, the run is failed exactly when some task
\* is failed, and success otherwise (also for a run without tasks); the
\* response and the dag_run_log row carry that status.
C4_RunStatus ==
    Returned =>
        /\ dag_run.status \in {SUCCESS, FAILED}
        /\ dag_run.status = FAILED <=>
              \E t \in DOMAIN dag_run.tasks : dag_run.tasks[t].status = FAILED
        /\ response.data.status = dag_run.status
        /\ \A i \in 1..Len(dag_run_log) : dag_run_log[i].status = dag_run.status

C4_Witness ==
    /\ Returned
    /\ dag_run.status = FAILED
    /\ \E t, u \in DOMAIN dag_run.tasks :
          /\ dag_run.tasks[t].status = FAILED
          /\ dag_run.tasks[u].status = SUCCESS

\* C5: layers run strictly one after the other: while a task of a later
\* layer is no longer pending (waiting, skipped, running, or handed to an
\* executor), every task of every earlier layer is skipped or has had its
\* _execute_task call end.
C5_LayersSequential ==
    (dag_run # None /\ pc # "idle") =>
        \A i, j \in 1..Len(layers) : i < j =>
            \A u \in Range(layers[i]), v \in Range(layers[j]) :
                (dag_run.tasks[v].status # PENDING \/ CallsFor(v) > 0) =>
                    \/ dag_run.tasks[u].status = SKIPPED
                    \/ futs[u] \in {"done", "exception"}

C5_Witness ==
    /\ dag_run # None
    /\ pc = "pool"
    /\ Len(layers) >= 2
    /\ layer_idx = 2
    /\ Cardinality(Range(layers[1])) = 2
    /\ \E v \in Range(layers[2]) : futs[v] = "calling"

\* C6: when execute_dag returns, every task is success, failed or skipped
\* and the run is success or failed, whatever target_date was passed.
C6_AllTerminalAtReturn ==
    Returned =>
        /\ \A t \in DOMAIN dag_run.tasks : dag_run.tasks[t].status \in Terminal
        /\ dag_run.status \in {SUCCESS, FAILED}

\* C7: an executor exception or an unknown task_type fails only that task:
\* when execute_dag returns, every task without a failed or skipped task
\* among its transitive dependencies was handed to its executor exactly
\* once (a task of unknown type, which has no executor, is failed with an
\* error message), and a task whose executor raised is failed with an error
\* message.
C7_ExceptionPerTask ==
    Returned =>
        \A t \in DOMAIN dag_run.tasks :
            (\A d \in TransDeps(dag_run.tasks, t) :
                 dag_run.tasks[d].status \notin {FAILED, SKIPPED}) =>
                IF dag_run.tasks[t].task_type \in {"sync", "production"}
                THEN /\ CallsFor(t) = 1
                     /\ dag_run.tasks[t].status \in {SUCCESS, FAILED}
                ELSE /\ dag_run.tasks[t].status = FAILED
                     /\ dag_run.tasks[t].error_message # None

\* C8: when some depends_on entry names a task that is not in the DAG,
\* build_dag raises; execute_dag then invokes no executor and writes no
\* dag_run_log or dag_task_log row.
C8_UnknownDependencyRejected ==
    (Requested /\ ~AllDepsKnown(ServedTasks)) =>
        /\ Raised
        /\ response.detail \in {"cycle", "unknown"}
        /\ dag_run = None
        /\ calls = EmptyBag
        /\ dag_run_log = <<>>
        /\ dag_task_log = EmptyBag

C8_Witness ==
    /\ Requested
    /\ ~AllDepsKnown(ServedTasks)
    /\ ~HasCycle(ServedTasks)
    /\ Raised
    /\ response.detail = "unknown"

\* C9: a backfill over a range of N weekdays runs execute_dag once per
\* weekday in ascending date order whatever the earlier days' status; its
\* response lists N runs with success_days + failed_days = N, and
\* get_backfill_summary of its backfill_id, read back from dag_run_log,
\* counts N rows, all of run_type backfill, with success_days +
\* failed_days = N.
C9_BackfillCounts ==
    /\ (req # Idle /\ req.mode = "backfill") =>
           [i \in 1..Len(req.results) |-> req.results[i].target_date]
                   \o req.dates
               = generate_trading_dates(req.start_date, req.end_date).dates
    /\ (req = Idle /\ response # None /\ response.status = "success"
            /\ response.mode = "backfill") =>
           LET N == response.total_days
               summary == get_backfill_summary(response.backfill_id)
           IN /\ Len(response.runs) = N
              /\ response.success_days + response.failed_days = N
              /\ summary # None
              /\ summary.total_days = N
              /\ summary.success_days + summary.failed_days = N
              /\ \A i \in 1..Len(summary.runs) :
                     summary.runs[i].run_type = "backfill"

\* the execute_task call in progress, or the last one made
LastCall == sync_calls[Len(sync_calls)]

\* call c is an incremental sync of an enabled task with neither
\* target_date nor end_date
PlainIncremental(c) ==
    /\ SyncConfig[c.task_id].sync_type = "incremental"
    /\ SyncConfig[c.task_id].enabled
    /\ c.target_date = None
    /\ c.end_date = None

\* s is an initial part of t
IsPrefix(s, t) == Len(s) <= Len(t) /\ \A i \in 1..Len(s) : s[i] = t[i]

\* the days from..to, ascending, as %Y%m%d text
DaysFromTo(from, to) ==
    [i \in 1..(IF to >= from THEN to - from + 1 ELSE 0) |-> Ymd(from + i - 1)]

\* C11: an incremental sync without target_date and end_date, for a task
\* with no watermark row, issues API calls for no date but today (the day
\* the call started), and when it returns true it has issued exactly one.
C11_FirstSyncOnlyToday ==
    (sync_calls # <<>> /\ PlainIncremental(LastCall)
         /\ LastCall.last_date = None) =>
        /\ IsPrefix(LastCall.api, <<LastCall.today>>)
        /\ (LastCall.done /\ LastCall.result) =>
               LastCall.api = <<LastCall.today>>

C11_Witness ==
    /\ sync_calls # <<>>
    /\ PlainIncremental(LastCall)
    /\ LastCall.last_date = None
    /\ LastCall.done
    /\ LastCall.result
    /\ LastCall.api = <<LastCall.today>>
    /\ LastCall.today.day > FirstDay
    /\ sync_log[LastCall.task_id] = LastCall.today

FailedOnDay(c) ==
    /\ SyncConfig[c.task_id].sync_type = "incremental"
    /\ SyncConfig[c.task_id].enabled
    /\ c.done
    /\ ~c.result
    /\ c.api # <<>>

\* the sync_date column of the sync_log_history rows from row number from on
HistoryDatesFrom(from) ==
    [i \in 1..(Len(sync_log_history) - from) |->
        sync_log_history[from + i].sync_date]

\* C13: when an incremental sync over s..e fails on day d (execute_task
\* returns false), sync_log_history holds one entry for each day s..d-1 of
\* the call and none for d or a later day, and the next execute_task call
\* for the task without target_date calls the API for the days from d on,
\* in order, starting at d.
C13_PartialProgressResumes ==
    /\ (sync_calls # <<>> /\ FailedOnDay(LastCall)) =>
           HistoryDatesFrom(LastCall.history)
               = SubSeq(LastCall.api, 1, Len(LastCall.api) - 1)
    /\ (Len(sync_calls) >= 2 /\ FailedOnDay(sync_calls[Len(sync_calls) - 1])
            /\ LastCall.task_id = sync_calls[Len(sync_calls) - 1].task_id
            /\ LastCall.target_date = None) =>
           LET failed == sync_calls[Len(sync_calls) - 1]
               d == failed.api[Len(failed.api)]
               to == IF LastCall.end_date # None
                     THEN LastCall.end_date ELSE LastCall.today
           IN IF to.fmt = "%Y%m%d"
              THEN /\ IsPrefix(LastCall.api, DaysFromTo(d.day, to.day))
                   /\ (LastCall.done /\ LastCall.result) =>
                          LastCall.api = DaysFromTo(d.day, to.day)
              ELSE LastCall.api = <<>>

\* the last two execute_task calls are incremental syncs of the same
\* enabled task for the same single day, and both returned true
TwiceSameDay ==
    /\ Len(sync_calls) >= 2
    /\ LET first == sync_calls[Len(sync_calls) - 1]
       IN /\ first.task_id = LastCall.task_id
          /\ SyncConfig[first.task_id].sync_type = "incremental"
          /\ SyncConfig[first.task_id].enabled
          /\ \A c \in {first, LastCall} :
                 /\ c.target_date # None
                 /\ c.target_date = first.target_date
                 /\ c.end_date \in {None, c.target_date}
                 /\ c.done
                 /\ c.result
                 /\ c.api = <<c.target_date>>

\* C14: after two execute_task calls for the same single day the target
\* table holds one row per primary-key combination (trade_date, ts_code),
\* and the two calls have appended exactly two sync_log_history rows, both
\* for that day.
C14_TwiceSameDayOneRowTwoEntries ==
    TwiceSameDay =>
        LET first == sync_calls[Len(sync_calls) - 1]
        IN /\ \A r \in BagToSet(sync_table) : CopiesIn(r, sync_table) = 1
           /\ HistoryDatesFrom(first.history)
                  = <<first.target_date, first.target_date>>

\* C10: for every sync task_id the watermark sync_log.last_date never
\* decreases and is never cleared, whatever execute_task calls are made
\* (whatever their target_date and end_date).
C10_WatermarkNeverDecreases ==
    [][\A task_id \in SyncTaskIds :
           sync_log[task_id] # None =>
               /\ sync_log'[task_id] # None
               /\ sync_log'[task_id].day >= sync_log[task_id].day]_vars

\* C15: the API calls one thread issues through the client, retry
\* attempts included, start at least 60/calls_per_minute seconds after one
\* another (0.5 s, two ticks, at 120 calls per minute).
C15_SingleThreadSpacing ==
    \A i \in 1..(Len(api_log) - 1) :
        (api_log[i + 1].at - api_log[i].at) * calls_per_minute
            >= TicksPerMinute

C15_Witness ==
    /\ Len(api_log) >= 2
    /\ api_log[1].attempt = 0
    /\ api_log[2].attempt = 0
    /\ api_log[2].at - api_log[1].at = call_interval
    /\ 2 * call_interval = TicksPerSecond

\* C16: the API calls of threads that share the client are serialised by
\* the limiter: any two of them start at least 60/calls_per_minute
\* seconds apart.
C16_PoolSpacing ==
    \A i, j \in 1..Len(api_log) :
        i < j =>
            (api_log[j].at - api_log[i].at) * calls_per_minute
                >= TicksPerMinute

\* the call_api frame of the single calling thread
Caller == workers["w1"]

\* C17: RetryPolicy.execute makes at most max_attempts attempts, each after
\* a failed one; it sleeps base_delay**attempt seconds after failed attempt
\* number attempt (from 0) unless it was the last, so the delays increase
\* strictly for base_delay > 1; when every attempt failed it has made
\* exactly max_attempts and re-raises the last error; an attempt that does
\* not fail ends the call.
C17_RetryBackoff ==
    LET n == Len(Caller.outcomes)
        m == retry_policy.max_attempts
        b == retry_policy.base_delay
    IN /\ n <= m
       /\ \A i \in 1..(n - 1) : Caller.outcomes[i] = "raise"
       /\ Len(Caller.sleeps) = IF Caller.pc = "idle" /\ n > 0 THEN n - 1
                               ELSE Caller.attempt
                                        + (IF Caller.pc = "backoff" THEN 1 ELSE 0)
       /\ \A i \in 1..Len(Caller.sleeps) : Caller.sleeps[i] = Pow(b, i - 1)
       /\ b > 1 => \A i \in 1..(Len(Caller.sleeps) - 1) :
                       Caller.sleeps[i] < Caller.sleeps[i + 1]
       /\ Caller.returned = "raised" <=>
              (n = m /\ Caller.outcomes[n] = "raise")
       /\ Caller.returned = "raised" =>
              /\ Caller.error = m - 1
              /\ Len(Caller.sleeps) = m - 1
       /\ (n > 0 /\ Caller.outcomes[n] # "raise") => Caller.pc = "idle"
       /\ \A i \in 1..(Len(api_log) - 1) :
              api_log[i + 1].attempt > 0 =>
                  api_log[i + 1].at - api_log[i].at
                      >= Pow(b, api_log[i].attempt) * TicksPerSecond

C17_Witness ==
    /\ Caller.returned = "raised"
    /\ retry_policy = DefaultPolicy
    /\ Caller.outcomes = <<"raise", "raise", "raise">>
    /\ Caller.sleeps = <<1, 2>>

\* C18: an API call that returns an empty result is retried: call_api
\* reports the empty result only after max_attempts attempts.
C18_EmptyResultRetried ==
    Caller.returned = "none" =>
        Len(Caller.outcomes) = retry_policy.max_attempts

\* the trading days before date_str
TradingDaysBefore(date_str) == {d \in trade_cal : d < date_str.day}

\* the smaller of two numbers
Min(x, y) == IF x <= y THEN x ELSE y

\* C20: a run_task call that computes a range [S, E] with lookback_days = L
\* loads its source data from a data_start that has at least L trading days
\* (all of them where fewer exist) between it and S, and every row it
\* stores has its trade_date within [S, E].
C20_LookbackAndRange ==
    \A i \in 1..Len(factor_runs) :
        LET c == factor_runs[i]
            before == TradingDaysBefore(c.dates.calc_start)
        IN c.dates # Unresolved =>
               /\ Cardinality({d \in before : d >= c.dates.data_start.day})
                      >= Min(c.lookback, Cardinality(before))
               /\ \A d \in c.stored : /\ d >= c.dates.calc_start.day
                                      /\ d <= c.dates.calc_end.day

\* the DAG side of C19: run_dag answers an error only for a DAG that
\* cannot be built, the handler of line 262 never fails the run, a future
\* ends with an exception only for a target_date that cannot be
\* normalised, and when execute_dag has returned for a valid target_date
\* every task is terminal, every task of a known type that was not skipped
\* was handed to its executor once, and the run status is the aggregate of
\* the task statuses
DagOutcomeKept ==
    /\ Raised => response.code = 404
    /\ pc # "except"
    /\ dag_run # None =>
           \A t \in DOMAIN dag_run.tasks :
               futs[t] = "exception" =>
                   normalize_date(dag_run.target_date) = ValueError
    /\ (Returned /\ normalize_date(dag_run.target_date) # ValueError) =>
           /\ ~Raised
           /\ dag_run.status = aggregate_status(dag_run.tasks)
           /\ \A t \in DOMAIN dag_run.tasks :
                  LET node == dag_run.tasks[t]
                  IN /\ node.status \in Terminal
                     /\ (/\ node.status # SKIPPED
                         /\ node.task_type \in {"sync", "production"}) =>
                            CallsFor(t) = 1

\* the production side of C19: no exception leaves run_task, a call that
\* loaded source rows invoked the factor function, and a call that stored
\* rows returns True
FactorOutcomeKept ==
    \A i \in 1..Len(factor_runs) :
        LET c == factor_runs[i]
        IN /\ c.ret # "raise"
           /\ c.loaded # {} => c.computed
           /\ c.stored # {} => c.ret = "true"

\* the sync side of C19: a step of execute_task that stored rows either
\* goes on to the next date or returns True
SyncOutcomeKept ==
    sync_table' # sync_table =>
        \/ sync_frame' # SyncIdle
        \/ sync_result' = TRUE

\* C19: a failing audit write (dag_run_log, dag_task_log, sync_log and
\* sync_log_history, factor_task_run, factor_metadata) does not change the
\* outcome of the work: the executors are still invoked, task statuses and
\* boolean results are those of the work, and execute_dag returns its run.
C19_AuditFailureKeepsOutcome ==
    /\ [](DagOutcomeKept /\ FactorOutcomeKept)
    /\ [][SyncOutcomeKept]_vars

C19_Witness ==
    /\ db_failing = DagAuditTables
    /\ Returned
    /\ dag_run.status = SUCCESS
    /\ response.status = "success"
    /\ \E t \in DOMAIN dag_run.tasks : CallsFor(t) = 1
    /\ dag_run_log = <<>>
    /\ dag_task_log = EmptyBag

\* C21: when the compute function of a factor returns None or an empty
\* frame, run_task returns True and stores no row, and the DAG executor
\* gives a production task whose run_task call ended so the status success.
C21_EmptyResultIsSuccess ==
    \A i \in 1..Len(factor_runs) :
        LET c == factor_runs[i]
        IN c.empty_result =>
               /\ c.ret = "true"
               /\ c.stored = {}
               /\ task_result(TaskNode([task_id |-> c.factor_id,
                                        task_type |-> "production",
                                        depends_on |-> <<>>]),
                              c.ret).status = SUCCESS

\* the second of two run_task calls repeats the first: the same arguments,
\* the same resolved range, the same source rows and the same result of the
\* compute function
SecondRunRepeatsFirst ==
    /\ factor_count = 1
    /\ factor_count' = 2
    /\ factor_runs'[2] = factor_runs[1]

\* C22: running run_task with mode = "full" a second time over the same
\* range, with unchanged source data and compute function, leaves
\* factor_values as it was after the first run, and factor_values always
\* holds one row per (ts_code, trade_date, factor_id).
C22_FullRunIdempotent ==
    /\ [](\A r \in BagToSet(factor_values) :
             /\ CopiesIn(r, factor_values) = 1
             /\ \A q \in BagToSet(factor_values) :
                    (/\ q.ts_code = r.ts_code
                     /\ q.trade_date = r.trade_date
                     /\ q.factor_id = r.factor_id) => q = r)
    /\ [][SecondRunRepeatsFirst => factor_values' = factor_values]_vars

\* two equal full runs that stored rows
C22_Witness ==
    /\ factor_count = 2
    /\ factor_runs[2] = factor_runs[1]
    /\ factor_runs[2].compute_mode = "full"
    /\ factor_runs[2].stored # {}
    /\ factor_runs[2].ret = "true"
    /\ BagCardinality(factor_values)
           = Cardinality(Codes) * Cardinality(factor_runs[2].stored)

\* the value of option k at the highest of the four levels that defines
\* it: the explicit argument, the factor_metadata override, the params of
\* the factor code, the global default
HighestLevelValue(c, k) ==
    IF c.preprocess # None /\ k \in DOMAIN c.preprocess THEN c.preprocess[k]
    ELSE IF k \in DOMAIN c.db_pp THEN c.db_pp[k]
    ELSE IF k \in DOMAIN c.factor_pp THEN c.factor_pp[k]
    ELSE DEFAULT_PREPROCESS[k]

RECURSIVE FlowReach(_)
FlowReach(S) ==
    LET more == S \cup {e[2] : e \in {x \in Range(flow_graph.edges) :
                                          x[1] \in S}}
    IN IF more = S THEN S ELSE FlowReach(more)

\* no edge path leads from a node back to it
FlowAcyclic ==
    \A e \in Range(flow_graph.edges) : e[1] \notin FlowReach({e[2]})

\* the edges are those of a chain through every node, in chain order
FlowChain(chain) ==
    /\ Range(chain) = Range(flow_graph.nodes)
    /\ Len(chain) = Len(flow_graph.nodes)
    /\ flow_graph.edges = [i \in 1..(Len(chain) - 1) |->
                              <<chain[i], chain[i + 1]>>]

\* C24: for every acyclic flow graph whose edges name listed nodes only,
\* _topo_sort returns every node exactly once with the source of each edge
\* before its target; a linear chain comes back in chain order.
C24_TopoSortOrders ==
    (flow_order.done /\ FlowAcyclic) =>
        /\ Len(flow_order.order) = Len(flow_graph.nodes)
        /\ Range(flow_order.order) = Range(flow_graph.nodes)
        /\ \A e \in Range(flow_graph.edges) :
               PosIn(flow_order.order, e[1]) < PosIn(flow_order.order, e[2])
        /\ \A chain \in FlowNodeLists :
               FlowChain(chain) => flow_order.order = chain

\* the diamond of the tests, its nodes inserted sink first: the root comes
\* first and the sink last
C24_Witness ==
    /\ flow_graph.nodes = <<"4", "3", "2", "1">>
    /\ flow_graph.edges = <<<<"1", "2">>, <<"1", "3">>, <<"2", "4">>,
                            <<"3", "4">>>>
    /\ flow_order.done
    /\ Len(flow_order.order) = 4
    /\ flow_order.order[1] = "1"
    /\ flow_order.order[4] = "4"

\* the status changes a task may make in one step
StatusSteps ==
    {<<PENDING, WAITING>>, <<WAITING, RUNNING>>, <<RUNNING, SUCCESS>>,
     <<RUNNING, FAILED>>, <<PENDING, SKIPPED>>}

\* C25: during a run the status of a task changes only along
\* pending -> waiting -> running -> success, pending -> waiting -> running
\* -> failed or pending -> skipped; a task that is success, failed or
\* skipped keeps its status, and a task becomes skipped only when one of
\* its direct dependencies is failed or skipped.
C25_StatusTransitions ==
    [][(dag_run # None /\ dag_run' # None) =>
          \A t \in DOMAIN dag_run.tasks :
              LET before == dag_run.tasks[t].status
                  after == dag_run'.tasks[t].status
              IN before # after =>
                     /\ <<before, after>> \in StatusSteps
                     /\ after = SKIPPED =>
                            \E d \in Range(dag_run.tasks[t].depends_on) :
                                /\ d \in DOMAIN dag_run.tasks
                                /\ dag_run'.tasks[d].status
                                       \in {FAILED, SKIPPED}]_vars

\* a finished run in which one task succeeded, one failed and one was
\* skipped
C25_Witness ==
    /\ Returned
    /\ \E t \in DOMAIN dag_run.tasks : dag_run.tasks[t].status = SUCCESS
    /\ \E t \in DOMAIN dag_run.tasks : dag_run.tasks[t].status = FAILED
    /\ \E t \in DOMAIN dag_run.tasks : dag_run.tasks[t].status = SKIPPED

\* the status of task t in the run, "none" without a run or such a task
StatusOf(t) ==
    IF dag_run = None THEN "none"
    ELSE IF t \notin DOMAIN dag_run.tasks THEN "none"
    ELSE dag_run.tasks[t].status

\* the tasks in status st
TasksIn(st) == {t \in AllTaskIds : StatusOf(t) = st}

\* C26: at every moment of a run at most max_workers tasks are in status
\* running, a waiting task is waiting while max_workers others are
\* running, and every waiting task of the layer is eventually run.
C26_PoolBound ==
    /\ [](Cardinality(TasksIn(RUNNING)) <= max_workers)
    /\ \A t \in WideIds : (StatusOf(t) = WAITING) ~> (StatusOf(t) # WAITING)

\* number of dag_task_log rows of the run for task t with status st
RowsOf(t, st) ==
    LET hits == {r \in BagToSet(dag_task_log) :
                    /\ r.run_id = dag_run.run_id
                    /\ r.task_id = t
                    /\ r.status = st}
        RECURSIVE Sum(_)
        Sum(S) == IF S = {} THEN 0
                  ELSE LET r == CHOOSE x \in S : TRUE
                       IN CopiesIn(r, dag_task_log) + Sum(S \ {r})
    IN Sum(hits)

\* the dag_run_log rows of the run
RunRows == SelectSeq(dag_run_log, LAMBDA r : r.run_id = dag_run.run_id)

\* C27: the audit rows of a run are written in order: the dag_run_log row
\* (status running) exists before any task leaves pending; a task has one
\* dag_task_log row with status running before its executor is called, no
\* terminal row while the call lasts and one row with its terminal status
\* afterwards; a skipped task has exactly one row, with status skipped; the
\* dag_run_log row gets its final status only when every task is finished.
C27_AuditRowOrder ==
    dag_run # None =>
        /\ (\E t \in DOMAIN dag_run.tasks : StatusOf(t) # PENDING)
               => Len(RunRows) = 1
        /\ \A t \in DOMAIN dag_run.tasks :
               /\ CallsFor(t) > 0 => RowsOf(t, RUNNING) = 1
               /\ futs[t] \in {"queued", "started", "calling"}
                      => RowsOf(t, SUCCESS) + RowsOf(t, FAILED) = 0
               /\ StatusOf(t) \in {SUCCESS, FAILED}
                      => /\ RowsOf(t, RUNNING) = 1
                         /\ RowsOf(t, StatusOf(t)) = 1
                         /\ RowsOf(t, SUCCESS) + RowsOf(t, FAILED) = 1
                         /\ RowsOf(t, SKIPPED) = 0
               /\ StatusOf(t) = SKIPPED
                      => /\ RowsOf(t, SKIPPED) = 1
                         /\ RowsOf(t, RUNNING) + RowsOf(t, SUCCESS)
                                + RowsOf(t, FAILED) = 0
        /\ (\E i \in 1..Len(RunRows) : RunRows[i].status # RUNNING)
               => \A t \in DOMAIN dag_run.tasks : StatusOf(t) \in Terminal

\* the tasks of the layers before layer k
EarlierLayers(k) == UNION {Range(layers[i]) : i \in 1..(k - 1)}

\* C28: for every valid DAG, layer k of topological_sort is exactly the set
\* of tasks that are in no earlier layer and whose dependencies all lie in
\* earlier layers: no two tasks of a layer depend on each other and every
\* task of a layer after the first has a dependency in the layer before.
C28_LayersAreLevels ==
    dag_run # None =>
        \A k \in 1..Len(layers) :
            /\ Range(layers[k]) =
                   {t \in DOMAIN dag_run.tasks :
                       /\ t \notin EarlierLayers(k)
                       /\ Range(dag_run.tasks[t].depends_on)
                              \subseteq EarlierLayers(k)}
            /\ Cardinality(Range(layers[k])) = Len(layers[k])
            /\ \A t \in Range(layers[k]) :
                   /\ Range(dag_run.tasks[t].depends_on)
                          \cap Range(layers[k]) = {}
                   /\ k > 1 => Range(dag_run.tasks[t].depends_on)
                                   \cap Range(layers[k - 1]) # {}

\* a DAG of three layers whose last task depends on a task of each of the
\* two layers before
C28_Witness ==
    /\ dag_run # None
    /\ Len(layers) = 3
    /\ \E t \in Range(layers[3]) :
           /\ Range(dag_run.tasks[t].depends_on) \cap Range(layers[1]) # {}
           /\ Range(dag_run.tasks[t].depends_on) \cap Range(layers[2]) # {}

\* call c is an incremental sync of an enabled task that has ended after
\* calling the API for the days c.api, none of the calls raising
SyncedWithoutRaise(c) ==
    /\ SyncConfig[c.task_id].sync_type = "incremental"
    /\ SyncConfig[c.task_id].enabled
    /\ c.done
    /\ c.api # <<>>
    /\ ~FailedOnDay(c)

\* C29: an incremental sync over the days s..e in which no API call raises
\* appends exactly one sync_log_history row per day of s..e, in ascending
\* date order, also for days without rows, returns true and leaves the
\* watermark at e.
C29_HistoryRowPerDay ==
    (sync_calls # <<>> /\ SyncedWithoutRaise(LastCall)) =>
        /\ LastCall.result
        /\ HistoryDatesFrom(LastCall.history) = LastCall.api
        /\ \A i \in 1..(Len(LastCall.api) - 1) :
               LastCall.api[i].day < LastCall.api[i + 1].day
        /\ sync_log[LastCall.task_id] = LastCall.api[Len(LastCall.api)]

\* the first and the last day of the range of an incremental call c, as
\* the claim resolves it: from target_date, else from the day after the
\* watermark, else from today; to end_date, else to target_date, else to
\* today
RangeStart(c) ==
    IF c.target_date # None THEN c.target_date.day
    ELSE IF c.last_date # None THEN c.last_date.day + 1
    ELSE c.today.day

RangeEnd(c) ==
    IF c.end_date # None THEN c.end_date.day
    ELSE IF c.target_date # None THEN c.target_date.day
    ELSE c.today.day

\* date_str is absent or in the layout YYYYMMDD, the one the sync
\* interfaces take
SyncLayout(date_str) == date_str = None \/ date_str.fmt = "%Y%m%d"

\* call c is an incremental sync of an enabled task, with its table in
\* place and its dates as YYYYMMDD, whose range has start > end
EmptyRange(c) ==
    /\ SyncConfig[c.task_id].sync_type = "incremental"
    /\ SyncConfig[c.task_id].enabled
    /\ c.table_ok
    /\ SyncLayout(c.target_date)
    /\ SyncLayout(c.end_date)
    /\ RangeStart(c) > RangeEnd(c)

LastRun == factor_runs[Len(factor_runs)]

\* the rows a run stores when it computes every source row of the days
\* first..last
RowsOfDays(factor_id, first, last) ==
    write_df(factor_id, {d \in trade_cal : first <= d /\ d <= last})

\* a run_task call ends in this step
RunTaskStep == factor_count' = factor_count + 1

C32_MetadataAfterStore ==
    [][RunTaskStep =>
          LET c == factor_runs'[Len(factor_runs')]
          IN /\ c.ret # "true" => factor_metadata' = factor_metadata
             /\ c.error # "" => c.ret = "false"
             /\ \A f \in FactorIds :
                    factor_metadata'[f] # factor_metadata[f] =>
                        /\ f = c.factor_id
                        /\ c.ret = "true"
                        /\ factor_metadata'[f] = c.dates.calc_end
                        /\ \A r \in write_df(f, c.stored) :
                               BagIn(r, factor_values')]_vars

\* a call of f1 whose store write raised: it returned false, no row was
\* stored and last_computed_date is the one it found
C32_Witness ==
    /\ factor_count = 1
    /\ LastRun.factor_id = "f1"
    /\ LastRun.error = "store"
    /\ LastRun.ret = "false"
    /\ LastRun.dates.calc_end = Ymd(MaxDay - 1)
    /\ factor_values = EmptyBag
    /\ factor_metadata["f1"] = Ymd(FirstDay + 1)

CodeLevelValue(c, k) ==
    IF c.preprocess # None /\ k \in DOMAIN c.preprocess THEN c.preprocess[k]
    ELSE IF k \in DOMAIN c.factor_pp THEN c.factor_pp[k]
    ELSE DEFAULT_PREPROCESS[k]

\* C39: on a database into which no user ever put preprocess options, every
\* run_task call of a registered factor uses, for every option, the
\* explicit argument, else the value of the factor code registered at the
\* time of the call, else the global default, also after earlier runs and
\* redeploys.
C39_CodeDefaultsApply ==
    \A i \in 1..Len(factor_runs) :
        LET c == factor_runs[i]
        IN \A k \in DOMAIN DEFAULT_PREPROCESS :
               c.opts[k] = CodeLevelValue(c, k)

\* C38: for every run_task call of a registered factor whose
\* factor_task_run row was inserted, the final status of the row is
\* "success" exactly when the call returned true and "failed" exactly when
\* it returned false, and no row of the table is left in status "running".
C38_RecordMatchesReturn ==
    /\ \A i \in 1..Len(factor_runs) :
           LET c == factor_runs[i]
           IN (c.factor_id \in FactorIds /\ c.run_id = "written") =>
                  /\ c.record = "success" <=> c.ret = "true"
                  /\ c.record = "failed" <=> c.ret = "false"
    /\ \A j \in 1..Len(factor_task_run) :
           factor_task_run[j].status # "running"

\* the dag_ids of the stored DAGs, in list order
StoredDagIds(ds) == [i \in 1..Len(ds) |-> ds[i].dag_id]

\* C34: the stored DAG list never holds two DAGs with one dag_id; add_dag
\* with an existing or empty dag_id, and update_dag and delete_dag with a
\* dag_id that is not stored, raise and leave the list as it was, and no
\* other call raises; update_dag leaves the dag_ids of the list, position
\* by position, unchanged.
C34_OneDagPerId ==
    /\ []DistinctDagIds(dags)
    /\ [][config_call' # config_call =>
             LET call == config_call'
                 stored == call.dag_id \in Range(StoredDagIds(dags))
             IN /\ call.raised => dags' = dags
                /\ call.op = "add_dag" =>
                       (call.raised <=> (stored \/ call.dag_id = ""))
                /\ call.op \in {"update_dag", "delete_dag"} =>
                       (call.raised <=> ~stored)
                /\ call.op = "update_dag" =>
                       StoredDagIds(dags') = StoredDagIds(dags)
                /\ (call.op = "add_dag" /\ ~call.raised) =>
                       /\ Len(dags') = Len(dags) + 1
                       /\ dags'[Len(dags')].dag_id = call.dag_id
                /\ (call.op = "delete_dag" /\ ~call.raised) =>
                       call.dag_id \notin Range(StoredDagIds(dags'))]_vars

\* a second add_dag of a stored dag_id was refused and the list still
\* holds its DAG once, among others
C34_Witness ==
    /\ config_call = [op |-> "add_dag", dag_id |-> "d1", raised |-> TRUE]
    /\ Len(dags) = 2
    /\ "d1" \in Range(StoredDagIds(dags))

\* C35: no two rows of dag_run_log, one per execute_dag invocation, carry
\* the same run_id, so that an update by run_id reaches one row and the
\* dag_task_log rows of a run_id belong to one invocation.
C35_RunIdsDistinct ==
    \A i, j \in 1..Len(dag_run_log) :
        dag_run_log[i].run_id = dag_run_log[j].run_id => i = j

\* the DAGRun.tasks build_dag makes of the task list of the stored DAG i
NodesOfDag(i) == [t \in DOMAIN dags[i].tasks |-> TaskNode(dags[i].tasks[t])]

\* C36: once a run_dag request had build_dag check a stored DAG,
\* _validate_no_cycles has accepted its task list exactly when the layers
\* topological_sort returns for it hold every task.
C36_KahnPassesAgree ==
    requests > 0 =>
        \A i \in 1..Len(dags) :
            LET tasks == NodesOfDag(i)
            IN validate_no_cycles(tasks)
               <=> Range(Flatten(topological_sort(tasks))) = DOMAIN tasks

\* an execute_task call returns false in this step
SyncFailsStep ==
    /\ sync_calls' # sync_calls
    /\ sync_calls'[Len(sync_calls')].done
    /\ ~sync_calls'[Len(sync_calls')].result

\* C37: the step in which an execute_task call returns false, which is
\* the unit of work that failed, appends no sync_log_history row and
\* leaves the watermark of every task where it was, in a full sync as in
\* an incremental one.
C37_FailedUnitLeavesNoTrace ==
    [][SyncFailsStep => /\ sync_log' = sync_log
                        /\ sync_log_history' = sync_log_history]_vars

\* the source days from 20100101 through today
WholeRange == {d \in trade_cal : FullStart.day <= d /\ d <= today}

\* C40: a run_task call in full mode that names a target_date only
\* resolves the range 20100101 .. today whatever the target_date is,
\* computes on the source rows of the whole range whenever it loaded any
\* and, when it returns true, has stored the rows of every source day of
\* the range; so every such call of a sequence recomputes the same range.
C40_FullIgnoresTarget ==
    \A i \in 1..Len(factor_runs) :
        LET c == factor_runs[i]
        IN (/\ c.compute_mode = "full"
            /\ c.start_date = None
            /\ c.end_date = None)
           => /\ c.dates.calc_start = FullStart
              /\ c.dates.calc_end = Ymd(today)
              /\ c.loaded # {} => (c.loaded = WholeRange /\ c.computed)
              /\ c.ret = "true" =>
                     /\ c.stored = WholeRange
                     /\ \A r \in write_df(c.factor_id, WholeRange) :
                            BagIn(r, factor_values)

\* two successful runs of the full-mode factor f2 for two different
\* target dates, each having stored every day of the range
C40_Witness ==
    /\ factor_count = 2
    /\ trade_cal = Days
    /\ \A i \in 1..2 : /\ factor_runs[i].factor_id = "f2"
                        /\ factor_runs[i].compute_mode = "full"
                        /\ factor_runs[i].ret = "true"
                        /\ factor_runs[i].stored = (FirstDay + 1)..today
    /\ factor_runs[1].target_date = Ymd(FirstDay + 1)
    /\ factor_runs[2].target_date = Ymd(MaxDay - 1)

====
